---- MODULE Spec2Model ----
(***************************************************************************)
(* A model of the AstroScope numeric core: the impact physics engine       *)
(* (calculateImpactRadius, calculateCraterDimensions, estimateCasualties), *)
(* the Palermo scale calculator page (recalc) and the solar system scene   *)
(* (clock, time speed slider, scale switch, orbit propagation).            *)
(*                                                                         *)
(* JavaScript numbers are modelled as decimal floating point values with a *)
(* three digit significand and a bounded exponent.  They keep the special  *)
(* values of IEEE 754 arithmetic: NaN, +Infinity, -Infinity, overflow to   *)
(* Infinity, underflow to zero, and 0 * Infinity = NaN.  The sign of zero  *)
(* and gradual underflow are not modelled.                                 *)
(***************************************************************************)
EXTENDS Integers, Sequences, FiniteSets, TLC

(***************************************************************************)
(* The largest decimal exponent of a finite number m * 10^x (100 <= m <=   *)
(* 999): above it a result overflows to Infinity, below -MaxExp it         *)
(* underflows to zero.                                                     *)
(***************************************************************************)
MaxExp == 50

\* ------------------------------------------------------------------------
\* JavaScript Number
\* ------------------------------------------------------------------------

NaN == [k |-> "nan", m |-> 0, x |-> 0]

PosInf == [k |-> "inf", m |-> 1, x |-> 0]

NegInf == [k |-> "inf", m |-> -1, x |-> 0]

Zero == [k |-> "fin", m |-> 0, x |-> 0]

Abs(i) == IF i < 0 THEN -i ELSE i

Sgn(i) == IF i < 0 THEN -1 ELSE IF i > 0 THEN 1 ELSE 0

Inf(s) == IF s < 0 THEN NegInf ELSE PosInf

RECURSIVE Pow10(_)
Pow10(p) == IF p <= 0 THEN 1 ELSE 10 * Pow10(p - 1)

RECURSIVE NumDigits(_)
NumDigits(n) == IF n < 10 THEN 1 ELSE 1 + NumDigits(n \div 10)

\* The number s * n * 10^x (n a natural number, s its sign) rounded to the
\* nearest three digit significand, half away from zero.
\* The number s * n * 10^x (s the sign, n > 0) rounded to three digits, half
\* away from zero; beyond the exponent range it is Infinity or 0.
Fin(s, n, x) ==
    IF n = 0 \/ s = 0 THEN Zero
    ELSE LET sh == NumDigits(n) - 3
             q  == IF sh > 0
                   THEN (n \div Pow10(sh))
                        + (IF 2 * (n % Pow10(sh)) >= Pow10(sh) THEN 1 ELSE 0)
                   ELSE n * Pow10(-sh)
             mm == IF q = 1000 THEN 100 ELSE q
             xx == x + sh + (IF q = 1000 THEN 1 ELSE 0)
         IN  IF xx > MaxExp THEN Inf(s)
             ELSE IF xx < -MaxExp THEN Zero
             ELSE [k |-> "fin", m |-> s * mm, x |-> xx]

\* An integer literal of the source as a Number.
Int2Num(i) == Fin(Sgn(i), Abs(i), 0)

isNaN(a) == a.k = "nan"

isFinite(a) == a.k = "fin"

IsZero(a) == a.k = "fin" /\ a.m = 0

FNeg(a) == [a EXCEPT !.m = -a.m]

\* a * b
FMul(a, b) ==
    IF isNaN(a) \/ isNaN(b) THEN NaN
    ELSE IF a.k = "inf" \/ b.k = "inf"
         THEN IF IsZero(a) \/ IsZero(b) THEN NaN ELSE Inf(Sgn(a.m) * Sgn(b.m))
    ELSE Fin(Sgn(a.m) * Sgn(b.m), Abs(a.m) * Abs(b.m), a.x + b.x)

\* a / b
FDiv(a, b) ==
    IF isNaN(a) \/ isNaN(b) THEN NaN
    ELSE IF a.k = "inf"
         THEN IF b.k = "inf" THEN NaN
              ELSE Inf(Sgn(a.m) * (IF Sgn(b.m) < 0 THEN -1 ELSE 1))
    ELSE IF b.k = "inf" THEN Zero
    ELSE IF IsZero(b) THEN (IF IsZero(a) THEN NaN ELSE Inf(Sgn(a.m)))
    ELSE Fin(Sgn(a.m) * Sgn(b.m), (Abs(a.m) * 100000) \div Abs(b.m), a.x - b.x - 5)

\* a + b
FAdd(a, b) ==
    IF isNaN(a) \/ isNaN(b) THEN NaN
    ELSE IF a.k = "inf"
         THEN IF b.k = "inf" /\ b.m # a.m THEN NaN ELSE a
    ELSE IF b.k = "inf" THEN b
    ELSE IF IsZero(a) THEN b
    ELSE IF IsZero(b) THEN a
    ELSE LET hi == IF a.x >= b.x THEN a ELSE b
             lo == IF a.x >= b.x THEN b ELSE a
             d  == hi.x - lo.x
             n  == hi.m * Pow10(d) + lo.m
         IN  IF d > 5 THEN hi ELSE Fin(Sgn(n), Abs(n), lo.x)

\* a - b
FSub(a, b) == FAdd(a, FNeg(b))

\* The order of two numbers neither of which is NaN: a < b.
Below(a, b) ==
    LET sa == Sgn(a.m)
        sb == Sgn(b.m)
        xa == IF a.k = "inf" THEN MaxExp + 1 ELSE a.x
        xb == IF b.k = "inf" THEN MaxExp + 1 ELSE b.x
        lt == xa < xb \/ (xa = xb /\ Abs(a.m) < Abs(b.m))
        gt == xb < xa \/ (xa = xb /\ Abs(b.m) < Abs(a.m))
    IN  IF sa # sb THEN sa < sb
        ELSE IF sa = 0 THEN FALSE
        ELSE IF sa > 0 THEN lt ELSE gt

\* The relational operators of JavaScript: every comparison with NaN is false.
FLt(a, b) == ~isNaN(a) /\ ~isNaN(b) /\ Below(a, b)

FGt(a, b) == FLt(b, a)

\* a < b in place of a <= b.
FLeStrict(a, b) == FLt(a, b)

FLe(a, b) == ~isNaN(a) /\ ~isNaN(b) /\ ~Below(b, a)

FGe(a, b) == FLe(b, a)

\* The largest r in lo..hi with r^k <= n (k = 2, 3), by bisection.
RECURSIVE IRoot(_, _, _, _)
IRoot(n, k, lo, hi) ==
    IF lo >= hi THEN lo
    ELSE IF (IF k = 2 THEN ((lo + hi + 1) \div 2) * ((lo + hi + 1) \div 2)
             ELSE ((lo + hi + 1) \div 2) * ((lo + hi + 1) \div 2) * ((lo + hi + 1) \div 2)) <= n
    THEN IRoot(n, k, (lo + hi + 1) \div 2, hi)
    ELSE IRoot(n, k, lo, ((lo + hi + 1) \div 2) - 1)

\* The k-th root of n to the nearest integer (k = 2, 3), for roots from 100
\* to 999.
NearestRoot(n, k) ==
    LET c == IRoot(n, k, 100, 999)
    IN  IF k = 2
        THEN (IF n - c * c > (c + 1) * (c + 1) - n THEN c + 1 ELSE c)
        ELSE (IF n - c * c * c > (c + 1) * (c + 1) * (c + 1) - n THEN c + 1 ELSE c)

\* Math.cbrt
FCbrt(a) ==
    IF a.k # "fin" \/ a.m = 0 THEN a
    ELSE LET r == a.x % 3
             p == IF r = 0 THEN 6 ELSE 3
             n == Abs(a.m) * Pow10(r + p)
         IN  Fin(Sgn(a.m), NearestRoot(n, 3), (a.x - r - p) \div 3)

\* Math.PI
PI == [k |-> "fin", m |-> 314, x |-> -2]

\* base ** n for the integer exponents the source uses (n = 2, 3): one
\* rounding of the exact power.
FPowInt(a, n) ==
    IF isNaN(a) THEN NaN
    ELSE IF a.k = "inf" THEN Inf(IF n % 2 = 0 THEN 1 ELSE a.m)
    ELSE LET am == Abs(a.m)
         IN  Fin(IF n % 2 = 0 THEN Sgn(am) ELSE Sgn(a.m),
                 IF n = 2 THEN am * am ELSE am * am * am, n * a.x)

\* A decimal literal of the source, m * 10^x.
Dec(m, x) == Fin(Sgn(m), Abs(m), x)

\* ------------------------------------------------------------------------
\* Logarithm, exponential and power
\* ------------------------------------------------------------------------

\* Pow10Table[k + 1] is 100 * 10^(k / 1000) to the nearest integer, k in 0..999.
Pow10Table ==
  <<
    100, 100, 100, 101, 101, 101, 101, 102, 102, 102, 102, 103, 103, 103, 103, 104, 104, 104, 104, 104,
    105, 105, 105, 105, 106, 106, 106, 106, 107, 107, 107, 107, 108, 108, 108, 108, 109, 109, 109, 109,
    110, 110, 110, 110, 111, 111, 111, 111, 112, 112, 112, 112, 113, 113, 113, 114, 114, 114, 114, 115,
    115, 115, 115, 116, 116, 116, 116, 117, 117, 117, 117, 118, 118, 118, 119, 119, 119, 119, 120, 120,
    120, 121, 121, 121, 121, 122, 122, 122, 122, 123, 123, 123, 124, 124, 124, 124, 125, 125, 125, 126,
    126, 126, 126, 127, 127, 127, 128, 128, 128, 129, 129, 129, 129, 130, 130, 130, 131, 131, 131, 132,
    132, 132, 132, 133, 133, 133, 134, 134, 134, 135, 135, 135, 136, 136, 136, 136, 137, 137, 137, 138,
    138, 138, 139, 139, 139, 140, 140, 140, 141, 141, 141, 142, 142, 142, 143, 143, 143, 144, 144, 144,
    145, 145, 145, 146, 146, 146, 147, 147, 147, 148, 148, 148, 149, 149, 149, 150, 150, 150, 151, 151,
    151, 152, 152, 152, 153, 153, 153, 154, 154, 155, 155, 155, 156, 156, 156, 157, 157, 157, 158, 158,
    158, 159, 159, 160, 160, 160, 161, 161, 161, 162, 162, 163, 163, 163, 164, 164, 164, 165, 165, 166,
    166, 166, 167, 167, 167, 168, 168, 169, 169, 169, 170, 170, 171, 171, 171, 172, 172, 173, 173, 173,
    174, 174, 175, 175, 175, 176, 176, 177, 177, 177, 178, 178, 179, 179, 179, 180, 180, 181, 181, 182,
    182, 182, 183, 183, 184, 184, 185, 185, 185, 186, 186, 187, 187, 187, 188, 188, 189, 189, 190, 190,
    191, 191, 191, 192, 192, 193, 193, 194, 194, 195, 195, 195, 196, 196, 197, 197, 198, 198, 199, 199,
    200, 200, 200, 201, 201, 202, 202, 203, 203, 204, 204, 205, 205, 206, 206, 207, 207, 207, 208, 208,
    209, 209, 210, 210, 211, 211, 212, 212, 213, 213, 214, 214, 215, 215, 216, 216, 217, 217, 218, 218,
    219, 219, 220, 220, 221, 221, 222, 222, 223, 223, 224, 224, 225, 225, 226, 226, 227, 228, 228, 229,
    229, 230, 230, 231, 231, 232, 232, 233, 233, 234, 234, 235, 236, 236, 237, 237, 238, 238, 239, 239,
    240, 240, 241, 242, 242, 243, 243, 244, 244, 245, 245, 246, 247, 247, 248, 248, 249, 249, 250, 251,
    251, 252, 252, 253, 254, 254, 255, 255, 256, 256, 257, 258, 258, 259, 259, 260, 261, 261, 262, 262,
    263, 264, 264, 265, 265, 266, 267, 267, 268, 269, 269, 270, 270, 271, 272, 272, 273, 274, 274, 275,
    275, 276, 277, 277, 278, 279, 279, 280, 281, 281, 282, 282, 283, 284, 284, 285, 286, 286, 287, 288,
    288, 289, 290, 290, 291, 292, 292, 293, 294, 294, 295, 296, 296, 297, 298, 299, 299, 300, 301, 301,
    302, 303, 303, 304, 305, 305, 306, 307, 308, 308, 309, 310, 310, 311, 312, 313, 313, 314, 315, 316,
    316, 317, 318, 318, 319, 320, 321, 321, 322, 323, 324, 324, 325, 326, 327, 327, 328, 329, 330, 330,
    331, 332, 333, 333, 334, 335, 336, 337, 337, 338, 339, 340, 340, 341, 342, 343, 344, 344, 345, 346,
    347, 348, 348, 349, 350, 351, 352, 352, 353, 354, 355, 356, 356, 357, 358, 359, 360, 361, 361, 362,
    363, 364, 365, 366, 366, 367, 368, 369, 370, 371, 372, 372, 373, 374, 375, 376, 377, 378, 378, 379,
    380, 381, 382, 383, 384, 385, 385, 386, 387, 388, 389, 390, 391, 392, 393, 394, 394, 395, 396, 397,
    398, 399, 400, 401, 402, 403, 404, 405, 406, 406, 407, 408, 409, 410, 411, 412, 413, 414, 415, 416,
    417, 418, 419, 420, 421, 422, 423, 424, 425, 426, 427, 428, 429, 430, 431, 432, 433, 434, 435, 436,
    437, 438, 439, 440, 441, 442, 443, 444, 445, 446, 447, 448, 449, 450, 451, 452, 453, 454, 455, 456,
    457, 458, 459, 460, 461, 462, 463, 465, 466, 467, 468, 469, 470, 471, 472, 473, 474, 475, 476, 478,
    479, 480, 481, 482, 483, 484, 485, 486, 488, 489, 490, 491, 492, 493, 494, 495, 497, 498, 499, 500,
    501, 502, 504, 505, 506, 507, 508, 509, 511, 512, 513, 514, 515, 516, 518, 519, 520, 521, 522, 524,
    525, 526, 527, 528, 530, 531, 532, 533, 535, 536, 537, 538, 540, 541, 542, 543, 545, 546, 547, 548,
    550, 551, 552, 553, 555, 556, 557, 558, 560, 561, 562, 564, 565, 566, 568, 569, 570, 571, 573, 574,
    575, 577, 578, 579, 581, 582, 583, 585, 586, 587, 589, 590, 592, 593, 594, 596, 597, 598, 600, 601,
    603, 604, 605, 607, 608, 610, 611, 612, 614, 615, 617, 618, 619, 621, 622, 624, 625, 627, 628, 630,
    631, 632, 634, 635, 637, 638, 640, 641, 643, 644, 646, 647, 649, 650, 652, 653, 655, 656, 658, 659,
    661, 662, 664, 665, 667, 668, 670, 671, 673, 675, 676, 678, 679, 681, 682, 684, 685, 687, 689, 690,
    692, 693, 695, 697, 698, 700, 701, 703, 705, 706, 708, 710, 711, 713, 714, 716, 718, 719, 721, 723,
    724, 726, 728, 729, 731, 733, 735, 736, 738, 740, 741, 743, 745, 746, 748, 750, 752, 753, 755, 757,
    759, 760, 762, 764, 766, 767, 769, 771, 773, 774, 776, 778, 780, 782, 783, 785, 787, 789, 791, 793,
    794, 796, 798, 800, 802, 804, 805, 807, 809, 811, 813, 815, 817, 818, 820, 822, 824, 826, 828, 830,
    832, 834, 836, 838, 839, 841, 843, 845, 847, 849, 851, 853, 855, 857, 859, 861, 863, 865, 867, 869,
    871, 873, 875, 877, 879, 881, 883, 885, 887, 889, 891, 893, 895, 897, 899, 902, 904, 906, 908, 910,
    912, 914, 916, 918, 920, 923, 925, 927, 929, 931, 933, 935, 938, 940, 942, 944, 946, 948, 951, 953,
    955, 957, 959, 962, 964, 966, 968, 971, 973, 975, 977, 979, 982, 984, 986, 989, 991, 993, 995, 998
  >>

\* Log10Table[m - 99] is 1000 * log10(m / 100) to the nearest integer, m in 100..999.
Log10Table ==
  <<
    0, 4, 9, 13, 17, 21, 25, 29, 33, 37, 41, 45, 49, 53, 57, 61, 64, 68, 72, 76,
    79, 83, 86, 90, 93, 97, 100, 104, 107, 111, 114, 117, 121, 124, 127, 130, 134, 137, 140, 143,
    146, 149, 152, 155, 158, 161, 164, 167, 170, 173, 176, 179, 182, 185, 188, 190, 193, 196, 199, 201,
    204, 207, 210, 212, 215, 217, 220, 223, 225, 228, 230, 233, 236, 238, 241, 243, 246, 248, 250, 253,
    255, 258, 260, 262, 265, 267, 270, 272, 274, 276, 279, 281, 283, 286, 288, 290, 292, 294, 297, 299,
    301, 303, 305, 307, 310, 312, 314, 316, 318, 320, 322, 324, 326, 328, 330, 332, 334, 336, 338, 340,
    342, 344, 346, 348, 350, 352, 354, 356, 358, 360, 362, 364, 365, 367, 369, 371, 373, 375, 377, 378,
    380, 382, 384, 386, 387, 389, 391, 393, 394, 396, 398, 400, 401, 403, 405, 407, 408, 410, 412, 413,
    415, 417, 418, 420, 422, 423, 425, 427, 428, 430, 431, 433, 435, 436, 438, 439, 441, 442, 444, 446,
    447, 449, 450, 452, 453, 455, 456, 458, 459, 461, 462, 464, 465, 467, 468, 470, 471, 473, 474, 476,
    477, 479, 480, 481, 483, 484, 486, 487, 489, 490, 491, 493, 494, 496, 497, 498, 500, 501, 502, 504,
    505, 507, 508, 509, 511, 512, 513, 515, 516, 517, 519, 520, 521, 522, 524, 525, 526, 528, 529, 530,
    531, 533, 534, 535, 537, 538, 539, 540, 542, 543, 544, 545, 547, 548, 549, 550, 551, 553, 554, 555,
    556, 558, 559, 560, 561, 562, 563, 565, 566, 567, 568, 569, 571, 572, 573, 574, 575, 576, 577, 579,
    580, 581, 582, 583, 584, 585, 587, 588, 589, 590, 591, 592, 593, 594, 595, 597, 598, 599, 600, 601,
    602, 603, 604, 605, 606, 607, 609, 610, 611, 612, 613, 614, 615, 616, 617, 618, 619, 620, 621, 622,
    623, 624, 625, 626, 627, 628, 629, 630, 631, 632, 633, 634, 635, 636, 637, 638, 639, 640, 641, 642,
    643, 644, 645, 646, 647, 648, 649, 650, 651, 652, 653, 654, 655, 656, 657, 658, 659, 660, 661, 662,
    663, 664, 665, 666, 667, 667, 668, 669, 670, 671, 672, 673, 674, 675, 676, 677, 678, 679, 679, 680,
    681, 682, 683, 684, 685, 686, 687, 688, 688, 689, 690, 691, 692, 693, 694, 695, 695, 696, 697, 698,
    699, 700, 701, 702, 702, 703, 704, 705, 706, 707, 708, 708, 709, 710, 711, 712, 713, 713, 714, 715,
    716, 717, 718, 719, 719, 720, 721, 722, 723, 723, 724, 725, 726, 727, 728, 728, 729, 730, 731, 732,
    732, 733, 734, 735, 736, 736, 737, 738, 739, 740, 740, 741, 742, 743, 744, 744, 745, 746, 747, 747,
    748, 749, 750, 751, 751, 752, 753, 754, 754, 755, 756, 757, 757, 758, 759, 760, 760, 761, 762, 763,
    763, 764, 765, 766, 766, 767, 768, 769, 769, 770, 771, 772, 772, 773, 774, 775, 775, 776, 777, 777,
    778, 779, 780, 780, 781, 782, 782, 783, 784, 785, 785, 786, 787, 787, 788, 789, 790, 790, 791, 792,
    792, 793, 794, 794, 795, 796, 797, 797, 798, 799, 799, 800, 801, 801, 802, 803, 803, 804, 805, 806,
    806, 807, 808, 808, 809, 810, 810, 811, 812, 812, 813, 814, 814, 815, 816, 816, 817, 818, 818, 819,
    820, 820, 821, 822, 822, 823, 823, 824, 825, 825, 826, 827, 827, 828, 829, 829, 830, 831, 831, 832,
    833, 833, 834, 834, 835, 836, 836, 837, 838, 838, 839, 839, 840, 841, 841, 842, 843, 843, 844, 844,
    845, 846, 846, 847, 848, 848, 849, 849, 850, 851, 851, 852, 852, 853, 854, 854, 855, 856, 856, 857,
    857, 858, 859, 859, 860, 860, 861, 862, 862, 863, 863, 864, 865, 865, 866, 866, 867, 867, 868, 869,
    869, 870, 870, 871, 872, 872, 873, 873, 874, 874, 875, 876, 876, 877, 877, 878, 879, 879, 880, 880,
    881, 881, 882, 883, 883, 884, 884, 885, 885, 886, 886, 887, 888, 888, 889, 889, 890, 890, 891, 892,
    892, 893, 893, 894, 894, 895, 895, 896, 897, 897, 898, 898, 899, 899, 900, 900, 901, 901, 902, 903,
    903, 904, 904, 905, 905, 906, 906, 907, 907, 908, 908, 909, 910, 910, 911, 911, 912, 912, 913, 913,
    914, 914, 915, 915, 916, 916, 917, 918, 918, 919, 919, 920, 920, 921, 921, 922, 922, 923, 923, 924,
    924, 925, 925, 926, 926, 927, 927, 928, 928, 929, 929, 930, 930, 931, 931, 932, 932, 933, 933, 934,
    934, 935, 936, 936, 937, 937, 938, 938, 939, 939, 940, 940, 941, 941, 942, 942, 943, 943, 943, 944,
    944, 945, 945, 946, 946, 947, 947, 948, 948, 949, 949, 950, 950, 951, 951, 952, 952, 953, 953, 954,
    954, 955, 955, 956, 956, 957, 957, 958, 958, 959, 959, 960, 960, 960, 961, 961, 962, 962, 963, 963,
    964, 964, 965, 965, 966, 966, 967, 967, 968, 968, 968, 969, 969, 970, 970, 971, 971, 972, 972, 973,
    973, 974, 974, 975, 975, 975, 976, 976, 977, 977, 978, 978, 979, 979, 980, 980, 980, 981, 981, 982,
    982, 983, 983, 984, 984, 985, 985, 985, 986, 986, 987, 987, 988, 988, 989, 989, 989, 990, 990, 991,
    991, 992, 992, 993, 993, 993, 994, 994, 995, 995, 996, 996, 997, 997, 997, 998, 998, 999, 999, 1000
  >>

\* Math.log10
FLog10(a) ==
    IF isNaN(a) \/ a.m < 0 THEN NaN
    ELSE IF a.k = "inf" THEN PosInf
    ELSE IF a.m = 0 THEN NegInf
    ELSE LET t == (a.x + 2) * 1000 + Log10Table[a.m - 99]
         IN  Fin(Sgn(t), Abs(t), -3)

\* A finite number as a whole number of thousandths, to the nearest one
\* (for numbers of magnitude below 1000).
Thousandths(a) ==
    LET am == Abs(a.m)
        p  == -(a.x + 3)
    IN  IF a.x + 3 >= 0 THEN a.m * Pow10(a.x + 3)
        ELSE IF p > 4 THEN 0
        ELSE Sgn(a.m) * ((am \div Pow10(p)) + (IF 2 * (am % Pow10(p)) >= Pow10(p) THEN 1 ELSE 0))

\* 10^y
FPow10(y) ==
    IF isNaN(y) THEN NaN
    ELSE IF y.k = "inf" THEN (IF y.m > 0 THEN PosInf ELSE Zero)
    ELSE IF y.m # 0 /\ y.x > 0 THEN (IF y.m > 0 THEN PosInf ELSE Zero)
    ELSE LET t == Thousandths(y)
         IN  Fin(1, Pow10Table[(t % 1000) + 1], (t \div 1000) - 2)

\* Math.pow(a, y) for a finite non-integer or zero exponent y.
FPow(a, y) ==
    IF isNaN(y) THEN NaN
    ELSE IF IsZero(y) THEN Int2Num(1)
    ELSE IF isNaN(a) THEN NaN
    ELSE IF a.k = "inf" THEN (IF y.m > 0 THEN PosInf ELSE Zero)
    ELSE IF a.m = 0 THEN (IF y.m > 0 THEN Zero ELSE PosInf)
    ELSE IF a.m < 0 THEN NaN
    ELSE FPow10(FMul(y, FLog10(a)))

\* The logarithm of a to the base b, where c is 1000 / log10(b): one rounding
\* of the logarithm read off the table.
LogBase(a, c) ==
    IF isNaN(a) \/ a.m < 0 THEN NaN
    ELSE IF a.k = "inf" THEN PosInf
    ELSE IF a.m = 0 THEN NegInf
    ELSE Fin(Sgn((a.x + 2) * 1000 + Log10Table[a.m - 99]),
             Abs((a.x + 2) * 1000 + Log10Table[a.m - 99]) * c, -6)

\* Math.log (1 / log10(e) = 2.303)
FLog(a) == LogBase(a, 2303)

\* Math.log2 (1 / log10(2) = 3.322)
FLog2(a) == LogBase(a, 3322)

\* Math.exp: 10^(y * log10(e)), log10(e) = 0.434294, one rounding of the
\* power read off the table.
FExp(y) ==
    IF isNaN(y) THEN NaN
    ELSE IF y.k = "inf" THEN (IF y.m > 0 THEN PosInf ELSE Zero)
    ELSE IF y.m # 0 /\ y.x > 0 THEN (IF y.m > 0 THEN PosInf ELSE Zero)
    ELSE LET t == Thousandths(y)
             u == ((t \div 1000) * 434294 + (t % 1000) * 434 + 500) \div 1000
         IN  Fin(1, Pow10Table[(u % 1000) + 1], (u \div 1000) - 2)

\* Math.sqrt
FSqrt(a) ==
    IF isNaN(a) \/ a.m < 0 THEN NaN
    ELSE IF a.k = "inf" \/ a.m = 0 THEN a
    ELSE LET r == a.x % 2
         IN  Fin(1, NearestRoot(a.m * Pow10(r + 2), 2), (a.x - r - 2) \div 2)

\* SinTable[k + 1] is 1000 * sin(k / 1000) to the nearest integer, for k in
\* 0..1571 (a quarter turn).
SinTable ==
  <<
     0, 1, 2, 3, 4, 5, 6, 7, 8, 9, 10, 11, 12, 13, 14, 15,
     16, 17, 18, 19, 20, 21, 22, 23, 24, 25, 26, 27, 28, 29, 30, 31,
     32, 33, 34, 35, 36, 37, 38, 39, 40, 41, 42, 43, 44, 45, 46, 47,
     48, 49, 50, 51, 52, 53, 54, 55, 56, 57, 58, 59, 60, 61, 62, 63,
     64, 65, 66, 67, 68, 69, 70, 71, 72, 73, 74, 75, 76, 77, 78, 79,
     80, 81, 82, 83, 84, 85, 86, 87, 88, 89, 90, 91, 92, 93, 94, 95,
     96, 97, 98, 99, 100, 101, 102, 103, 104, 105, 106, 107, 108, 109, 110, 111,
     112, 113, 114, 115, 116, 117, 118, 119, 120, 121, 122, 123, 124, 125, 126, 127,
     128, 129, 130, 131, 132, 133, 134, 135, 136, 137, 138, 139, 140, 141, 142, 143,
     144, 144, 145, 146, 147, 148, 149, 150, 151, 152, 153, 154, 155, 156, 157, 158,
     159, 160, 161, 162, 163, 164, 165, 166, 167, 168, 169, 170, 171, 172, 173, 174,
     175, 176, 177, 178, 179, 180, 181, 182, 183, 184, 185, 186, 187, 188, 189, 190,
     191, 192, 193, 194, 195, 196, 197, 198, 199, 200, 201, 202, 203, 204, 205, 206,
     207, 207, 208, 209, 210, 211, 212, 213, 214, 215, 216, 217, 218, 219, 220, 221,
     222, 223, 224, 225, 226, 227, 228, 229, 230, 231, 232, 233, 234, 235, 236, 237,
     238, 239, 240, 241, 242, 243, 244, 244, 245, 246, 247, 248, 249, 250, 251, 252,
     253, 254, 255, 256, 257, 258, 259, 260, 261, 262, 263, 264, 265, 266, 267, 268,
     269, 270, 271, 272, 273, 273, 274, 275, 276, 277, 278, 279, 280, 281, 282, 283,
     284, 285, 286, 287, 288, 289, 290, 291, 292, 293, 294, 295, 296, 296, 297, 298,
     299, 300, 301, 302, 303, 304, 305, 306, 307, 308, 309, 310, 311, 312, 313, 314,
     315, 316, 316, 317, 318, 319, 320, 321, 322, 323, 324, 325, 326, 327, 328, 329,
     330, 331, 332, 333, 333, 334, 335, 336, 337, 338, 339, 340, 341, 342, 343, 344,
     345, 346, 347, 348, 349, 349, 350, 351, 352, 353, 354, 355, 356, 357, 358, 359,
     360, 361, 362, 363, 363, 364, 365, 366, 367, 368, 369, 370, 371, 372, 373, 374,
     375, 376, 376, 377, 378, 379, 380, 381, 382, 383, 384, 385, 386, 387, 388, 388,
     389, 390, 391, 392, 393, 394, 395, 396, 397, 398, 399, 400, 400, 401, 402, 403,
     404, 405, 406, 407, 408, 409, 410, 410, 411, 412, 413, 414, 415, 416, 417, 418,
     419, 420, 421, 421, 422, 423, 424, 425, 426, 427, 428, 429, 430, 430, 431, 432,
     433, 434, 435, 436, 437, 438, 439, 439, 440, 441, 442, 443, 444, 445, 446, 447,
     448, 448, 449, 450, 451, 452, 453, 454, 455, 456, 456, 457, 458, 459, 460, 461,
     462, 463, 464, 464, 465, 466, 467, 468, 469, 470, 471, 472, 472, 473, 474, 475,
     476, 477, 478, 479, 479, 480, 481, 482, 483, 484, 485, 486, 486, 487, 488, 489,
     490, 491, 492, 493, 493, 494, 495, 496, 497, 498, 499, 499, 500, 501, 502, 503,
     504, 505, 506, 506, 507, 508, 509, 510, 511, 512, 512, 513, 514, 515, 516, 517,
     518, 518, 519, 520, 521, 522, 523, 524, 524, 525, 526, 527, 528, 529, 529, 530,
     531, 532, 533, 534, 535, 535, 536, 537, 538, 539, 540, 540, 541, 542, 543, 544,
     545, 546, 546, 547, 548, 549, 550, 551, 551, 552, 553, 554, 555, 556, 556, 557,
     558, 559, 560, 561, 561, 562, 563, 564, 565, 565, 566, 567, 568, 569, 570, 570,
     571, 572, 573, 574, 575, 575, 576, 577, 578, 579, 579, 580, 581, 582, 583, 583,
     584, 585, 586, 587, 588, 588, 589, 590, 591, 592, 592, 593, 594, 595, 596, 596,
     597, 598, 599, 600, 600, 601, 602, 603, 604, 604, 605, 606, 607, 608, 608, 609,
     610, 611, 612, 612, 613, 614, 615, 615, 616, 617, 618, 619, 619, 620, 621, 622,
     623, 623, 624, 625, 626, 626, 627, 628, 629, 630, 630, 631, 632, 633, 633, 634,
     635, 636, 637, 637, 638, 639, 640, 640, 641, 642, 643, 643, 644, 645, 646, 647,
     647, 648, 649, 650, 650, 651, 652, 653, 653, 654, 655, 656, 656, 657, 658, 659,
     659, 660, 661, 662, 662, 663, 664, 665, 665, 666, 667, 668, 668, 669, 670, 671,
     671, 672, 673, 674, 674, 675, 676, 677, 677, 678, 679, 679, 680, 681, 682, 682,
     683, 684, 685, 685, 686, 687, 687, 688, 689, 690, 690, 691, 692, 693, 693, 694,
     695, 695, 696, 697, 698, 698, 699, 700, 700, 701, 702, 703, 703, 704, 705, 705,
     706, 707, 708, 708, 709, 710, 710, 711, 712, 712, 713, 714, 715, 715, 716, 717,
     717, 718, 719, 719, 720, 721, 722, 722, 723, 724, 724, 725, 726, 726, 727, 728,
     728, 729, 730, 730, 731, 732, 733, 733, 734, 735, 735, 736, 737, 737, 738, 739,
     739, 740, 741, 741, 742, 743, 743, 744, 745, 745, 746, 747, 747, 748, 749, 749,
     750, 751, 751, 752, 753, 753, 754, 755, 755, 756, 757, 757, 758, 758, 759, 760,
     760, 761, 762, 762, 763, 764, 764, 765, 766, 766, 767, 768, 768, 769, 769, 770,
     771, 771, 772, 773, 773, 774, 775, 775, 776, 776, 777, 778, 778, 779, 780, 780,
     781, 781, 782, 783, 783, 784, 785, 785, 786, 786, 787, 788, 788, 789, 790, 790,
     791, 791, 792, 793, 793, 794, 794, 795, 796, 796, 797, 797, 798, 799, 799, 800,
     800, 801, 802, 802, 803, 803, 804, 805, 805, 806, 806, 807, 808, 808, 809, 809,
     810, 810, 811, 812, 812, 813, 813, 814, 815, 815, 816, 816, 817, 817, 818, 819,
     819, 820, 820, 821, 821, 822, 823, 823, 824, 824, 825, 825, 826, 827, 827, 828,
     828, 829, 829, 830, 830, 831, 832, 832, 833, 833, 834, 834, 835, 835, 836, 837,
     837, 838, 838, 839, 839, 840, 840, 841, 841, 842, 843, 843, 844, 844, 845, 845,
     846, 846, 847, 847, 848, 848, 849, 849, 850, 851, 851, 852, 852, 853, 853, 854,
     854, 855, 855, 856, 856, 857, 857, 858, 858, 859, 859, 860, 860, 861, 861, 862,
     862, 863, 863, 864, 864, 865, 865, 866, 866, 867, 867, 868, 868, 869, 869, 870,
     870, 871, 871, 872, 872, 873, 873, 874, 874, 875, 875, 876, 876, 877, 877, 878,
     878, 879, 879, 880, 880, 881, 881, 881, 882, 882, 883, 883, 884, 884, 885, 885,
     886, 886, 887, 887, 888, 888, 888, 889, 889, 890, 890, 891, 891, 892, 892, 893,
     893, 893, 894, 894, 895, 895, 896, 896, 897, 897, 897, 898, 898, 899, 899, 900,
     900, 901, 901, 901, 902, 902, 903, 903, 904, 904, 904, 905, 905, 906, 906, 907,
     907, 907, 908, 908, 909, 909, 909, 910, 910, 911, 911, 912, 912, 912, 913, 913,
     914, 914, 914, 915, 915, 916, 916, 916, 917, 917, 918, 918, 918, 919, 919, 920,
     920, 920, 921, 921, 922, 922, 922, 923, 923, 923, 924, 924, 925, 925, 925, 926,
     926, 926, 927, 927, 928, 928, 928, 929, 929, 929, 930, 930, 931, 931, 931, 932,
     932, 932, 933, 933, 933, 934, 934, 935, 935, 935, 936, 936, 936, 937, 937, 937,
     938, 938, 938, 939, 939, 939, 940, 940, 940, 941, 941, 941, 942, 942, 942, 943,
     943, 943, 944, 944, 944, 945, 945, 945, 946, 946, 946, 947, 947, 947, 948, 948,
     948, 949, 949, 949, 950, 950, 950, 951, 951, 951, 951, 952, 952, 952, 953, 953,
     953, 954, 954, 954, 955, 955, 955, 955, 956, 956, 956, 957, 957, 957, 957, 958,
     958, 958, 959, 959, 959, 959, 960, 960, 960, 961, 961, 961, 961, 962, 962, 962,
     962, 963, 963, 963, 964, 964, 964, 964, 965, 965, 965, 965, 966, 966, 966, 966,
     967, 967, 967, 967, 968, 968, 968, 968, 969, 969, 969, 969, 970, 970, 970, 970,
     971, 971, 971, 971, 972, 972, 972, 972, 973, 973, 973, 973, 973, 974, 974, 974,
     974, 975, 975, 975, 975, 976, 976, 976, 976, 976, 977, 977, 977, 977, 977, 978,
     978, 978, 978, 978, 979, 979, 979, 979, 980, 980, 980, 980, 980, 981, 981, 981,
     981, 981, 981, 982, 982, 982, 982, 982, 983, 983, 983, 983, 983, 984, 984, 984,
     984, 984, 984, 985, 985, 985, 985, 985, 985, 986, 986, 986, 986, 986, 986, 987,
     987, 987, 987, 987, 987, 988, 988, 988, 988, 988, 988, 989, 989, 989, 989, 989,
     989, 989, 990, 990, 990, 990, 990, 990, 990, 991, 991, 991, 991, 991, 991, 991,
     991, 992, 992, 992, 992, 992, 992, 992, 992, 993, 993, 993, 993, 993, 993, 993,
     993, 994, 994, 994, 994, 994, 994, 994, 994, 994, 995, 995, 995, 995, 995, 995,
     995, 995, 995, 995, 996, 996, 996, 996, 996, 996, 996, 996, 996, 996, 996, 996,
     997, 997, 997, 997, 997, 997, 997, 997, 997, 997, 997, 997, 997, 998, 998, 998,
     998, 998, 998, 998, 998, 998, 998, 998, 998, 998, 998, 998, 998, 999, 999, 999,
     999, 999, 999, 999, 999, 999, 999, 999, 999, 999, 999, 999, 999, 999, 999, 999,
     999, 999, 999, 999, 1000, 1000, 1000, 1000, 1000, 1000, 1000, 1000, 1000, 1000, 1000, 1000,
     1000, 1000, 1000, 1000, 1000, 1000, 1000, 1000, 1000, 1000, 1000, 1000, 1000, 1000, 1000, 1000,
     1000, 1000, 1000, 1000
  >>

\* The sine of t thousandths of a radian, in thousandths.
SinThousandths(t) ==
    LET r == t % 6283
    IN  IF r <= 1571 THEN SinTable[r + 1]
        ELSE IF r <= 3142 THEN SinTable[3142 - r + 1]
        ELSE IF r <= 4712 THEN -SinTable[r - 3142 + 1]
        ELSE -SinTable[6283 - r + 1]

\* Math.sin, for angles of magnitude below 10^5; an angle below 0.01 is its
\* own sine to three digits.
FSin(a) ==
    IF a.k # "fin" THEN NaN
    ELSE IF a.m = 0 \/ a.x < -4 THEN a
    ELSE Fin(Sgn(SinThousandths(Thousandths(a))), Abs(SinThousandths(Thousandths(a))), -3)

\* Math.cos, for angles of magnitude below 10^5.
FCos(a) ==
    IF a.k # "fin" THEN NaN
    ELSE Fin(Sgn(SinThousandths(Thousandths(a) + 1571)),
             Abs(SinThousandths(Thousandths(a) + 1571)), -3)

\* 10^k modulo n.
RECURSIVE Pow10Mod(_, _)
Pow10Mod(k, n) == IF k <= 0 THEN 1 % n ELSE (10 * Pow10Mod(k - 1, n)) % n

\* The remainder operator a % b of two numbers: the sign of the dividend, the
\* magnitude |a| - |b| * floor(|a| / |b|).
FRem(a, b) ==
    IF a.k # "fin" \/ isNaN(b) \/ IsZero(b) THEN NaN
    ELSE IF b.k = "inf" \/ a.m = 0 \/ Below(Fin(1, Abs(a.m), a.x), Fin(1, Abs(b.m), b.x)) THEN a
    ELSE Fin(Sgn(a.m), (Abs(a.m) * Pow10Mod(a.x - b.x, Abs(b.m))) % Abs(b.m), b.x)

\* ------------------------------------------------------------------------
\* JavaScript strings (sequences of characters) and their conversion to Number
\* ------------------------------------------------------------------------

DigitChars == {"0", "1", "2", "3", "4", "5", "6", "7", "8", "9"}

DigitVal(c) ==
    CASE c = "0" -> 0 [] c = "1" -> 1 [] c = "2" -> 2 [] c = "3" -> 3
      [] c = "4" -> 4 [] c = "5" -> 5 [] c = "6" -> 6 [] c = "7" -> 7
      [] c = "8" -> 8 [] c = "9" -> 9

RECURSIVE SkipWhite(_, _)
SkipWhite(s, i) == IF i <= Len(s) /\ s[i] = " " THEN SkipWhite(s, i + 1) ELSE i

\* The first index from i on at which s holds no digit.
RECURSIVE DigitsEnd(_, _)
DigitsEnd(s, i) == IF i <= Len(s) /\ s[i] \in DigitChars THEN DigitsEnd(s, i + 1) ELSE i

\* The value of the digits s[i] .. s[j-1].
RECURSIVE DigitsVal(_, _, _)
DigitsVal(s, i, j) == IF i >= j THEN 0 ELSE DigitsVal(s, i, j - 1) * 10 + DigitVal(s[j - 1])

InfinityWord == <<"I", "n", "f", "i", "n", "i", "t", "y">>

\* A scanned literal: its value (NaN when none was found) and the index after it.
Scanned(val, next) == [val |-> val, next |-> next]

\* The literal sg * mant * 10^(-nfrac) ending before index k, with the
\* exponent digits s[e1] .. s[e2-1] of sign es when there are any.
ScanExponentDigits(s, sg, mant, nfrac, k, es, e1, e2) ==
    IF e2 > e1
    THEN Scanned(Fin(sg, mant, es * DigitsVal(s, e1, e2) - nfrac), e2)
    ELSE Scanned(Fin(sg, mant, -nfrac), k)

ScanExponentSign(s, sg, mant, nfrac, k, es, e1) ==
    ScanExponentDigits(s, sg, mant, nfrac, k, es, e1, DigitsEnd(s, e1))

ScanExponent(s, sg, mant, nfrac, k) ==
    IF k <= Len(s) /\ s[k] \in {"e", "E"}
    THEN IF k + 1 <= Len(s) /\ s[k + 1] = "-"
         THEN ScanExponentSign(s, sg, mant, nfrac, k, -1, k + 2)
         ELSE IF k + 1 <= Len(s) /\ s[k + 1] = "+"
         THEN ScanExponentSign(s, sg, mant, nfrac, k, 1, k + 2)
         ELSE ScanExponentSign(s, sg, mant, nfrac, k, 1, k + 1)
    ELSE Scanned(Fin(sg, mant, -nfrac), k)

\* Integer digits s[i] .. s[j-1], then fraction digits s[j+1] .. s[k-1].
ScanFraction(s, i0, sg, i, j, k) ==
    IF (j - i) + (k - (j + 1)) = 0 THEN Scanned(NaN, i0)
    ELSE ScanExponent(s, sg,
                      DigitsVal(s, i, j) * Pow10(k - (j + 1)) + DigitsVal(s, j + 1, k),
                      k - (j + 1), k)

ScanDigits(s, i0, sg, i, j) ==
    IF j <= Len(s) /\ s[j] = "." THEN ScanFraction(s, i0, sg, i, j, DigitsEnd(s, j + 1))
    ELSE IF j = i THEN Scanned(NaN, i0)
    ELSE ScanExponent(s, sg, DigitsVal(s, i, j), 0, j)

ScanUnsigned(s, i0, sg, i) ==
    IF i + 7 <= Len(s) /\ SubSeq(s, i, i + 7) = InfinityWord THEN Scanned(Inf(sg), i + 8)
    ELSE ScanDigits(s, i0, sg, i, DigitsEnd(s, i))

\* The longest prefix of s from index i0 that is a StrDecimalLiteral:
\* [sign] (Infinity | digits [. digits] | . digits) [e [sign] digits].
StrDecimalLiteral(s, i0) ==
    IF i0 <= Len(s) /\ s[i0] = "-" THEN ScanUnsigned(s, i0, -1, i0 + 1)
    ELSE IF i0 <= Len(s) /\ s[i0] = "+" THEN ScanUnsigned(s, i0, 1, i0 + 1)
    ELSE ScanUnsigned(s, i0, 1, i0)

\* parseFloat(string)
parseFloat(s) == StrDecimalLiteral(s, SkipWhite(s, 1)).val

\* Number(string): the whole trimmed string must be a numeric literal; the
\* empty string is 0.
StringToNumber(s) ==
    IF SkipWhite(s, 1) > Len(s) THEN Zero
    ELSE IF SkipWhite(s, StrDecimalLiteral(s, SkipWhite(s, 1)).next) > Len(s)
    THEN StrDecimalLiteral(s, SkipWhite(s, 1)).val
    ELSE NaN

\* ------------------------------------------------------------------------
\* JavaScript values and Number(value)
\* ------------------------------------------------------------------------

JSNumber(a) == [t |-> "number", n |-> a, s |-> <<>>, b |-> FALSE]

JSString(str) == [t |-> "string", n |-> NaN, s |-> str, b |-> FALSE]

JSUndefined == [t |-> "undefined", n |-> NaN, s |-> <<>>, b |-> FALSE]

JSNull == [t |-> "null", n |-> NaN, s |-> <<>>, b |-> FALSE]

\* Number(v)
Number(v) ==
    CASE v.t = "number"    -> v.n
      [] v.t = "string"    -> StringToNumber(v.s)
      [] v.t = "boolean"   -> IF v.b THEN Int2Num(1) ELSE Zero
      [] v.t = "null"      -> Zero
      [] v.t = "undefined" -> NaN

\* ------------------------------------------------------------------------
\* Impact physics engine
\* ------------------------------------------------------------------------

\* throw new Error(msg): the call returns no result record.
Throw(msg) == [threw |-> TRUE, error |-> msg]

\* return value
Return(v) == [threw |-> FALSE, value |-> v]

\* The ladder with inclusive thresholds (>= in place of >).
ClassificationInclusive(severe_radius_km, moderate_radius_km) ==
    IF FGe(severe_radius_km, Int2Num(5)) THEN "Severe"
    ELSE IF FGe(moderate_radius_km, Int2Num(2)) THEN "Moderate"
    ELSE "Light"

\* The damage classification ladder over the radii in km.
Classification(severe_radius_km, moderate_radius_km) ==
    IF FGt(severe_radius_km, Int2Num(5)) THEN "Severe"
    ELSE IF FGt(moderate_radius_km, Int2Num(2)) THEN "Moderate"
    ELSE "Light"

\* The energy without the half of (1/2) m v^2: (pi / 6) * density * diameter^3 * speed^2.
KineticEnergyWithoutHalf(d, s, dia) ==
    FMul(FMul(FMul(FDiv(PI, Int2Num(6)), d), FPowInt(dia, 3)), FPowInt(s, 2))

\* E = (pi / 12) * density * diameter^3 * speed^2, evaluated left to right.
KineticEnergy(d, s, dia) ==
    FMul(FMul(FMul(FDiv(PI, Int2Num(12)), d), FPowInt(dia, 3)), FPowInt(s, 2))

\* The radii in km for the three damage coefficients, R = k * cbrt(E) / 1000.
ImpactRadiusKm(k, kineticEnergy) ==
    FDiv(FMul(k, FCbrt(kineticEnergy)), Int2Num(1000))

\* calculateImpactRadius from the validation on, over the numeric values
\* d, s, dia of its arguments.
ImpactRadiusOfNumbers(d, s, dia) ==
    LET kineticEnergy      == KineticEnergy(d, s, dia)
        severe_radius_km   == ImpactRadiusKm(Dec(18, -5), kineticEnergy)    \* severe_k
        moderate_radius_km == ImpactRadiusKm(Dec(40, -5), kineticEnergy)    \* moderate_k
        light_radius_km    == ImpactRadiusKm(Dec(80, -5), kineticEnergy)    \* light_k
    IN  IF isNaN(d) \/ isNaN(s) \/ isNaN(dia)
        THEN Throw("All inputs must be numeric values.")
        ELSE IF FLe(d, Zero) \/ FLe(s, Zero) \/ FLe(dia, Zero)
        THEN Throw("Density, Speed, and Diameter must be positive values.")
        ELSE Return([kinetic_energy_joules   |-> kineticEnergy,
                     kinetic_energy_megatons |-> FDiv(kineticEnergy, Dec(4184, 12)),
                     severe_radius_km        |-> severe_radius_km,
                     moderate_radius_km      |-> moderate_radius_km,
                     light_radius_km         |-> light_radius_km,
                     damage_classification   |->
                         Classification(severe_radius_km, moderate_radius_km),
                     input_parameters        |->
                         [density_kg_m3 |-> d, speed_m_s |-> s, diameter_m |-> dia]])

calculateImpactRadius(density, speed, diameter) ==
    ImpactRadiusOfNumbers(Number(density), Number(speed), Number(diameter))

\* calculateCraterDimensions from the validation on, over the numeric values
\* dia, s, d of its arguments; the crater scaling law is 1.2 * (E / 1e12)^0.294.
CraterOfNumbers(dia, s, d) ==
    LET kineticEnergy     == KineticEnergy(d, s, dia)
        crater_diameter_m ==
            FMul(Dec(12, -1), FPow(FDiv(kineticEnergy, Dec(1, 12)), Dec(294, -3)))
        crater_depth_m    == FMul(crater_diameter_m, Dec(2, -1))
    IN  IF (isNaN(dia) \/ isNaN(s) \/ isNaN(d))
           \/ (FLe(dia, Zero) \/ FLe(s, Zero) \/ FLe(d, Zero))
        THEN Throw("All inputs must be positive numeric values.")
        ELSE Return([crater_diameter_m     |-> crater_diameter_m,
                     crater_diameter_km    |-> FDiv(crater_diameter_m, Int2Num(1000)),
                     crater_depth_m        |-> crater_depth_m,
                     crater_depth_km       |-> FDiv(crater_depth_m, Int2Num(1000)),
                     crater_volume_m3      |->
                         FMul(FMul(PI, FPowInt(FDiv(crater_diameter_m, Int2Num(2)), 2)),
                              crater_depth_m),
                     kinetic_energy_joules |-> kineticEnergy])

calculateCraterDimensions(diameter, speed, density) ==
    CraterOfNumbers(Number(diameter), Number(speed), Number(density))

\* Math.round: the nearest integer, halves towards +Infinity.
FRound(a) ==
    IF a.k # "fin" \/ a.x >= 0 THEN a
    ELSE IF -a.x > 3 THEN Zero
    ELSE Int2Num((2 * a.m + Pow10(-a.x)) \div (2 * Pow10(-a.x)))

\* Area of a circle of radius r, Math.PI * r * r.
CircleArea(r) == FMul(FMul(PI, r), r)

\* estimateCasualties, had each zone been the ring outside the zone within it.
CasualtiesOfRings(severe_r, moderate_r, light_r, pop_density) ==
    LET severe_area_km2     == CircleArea(severe_r)
        moderate_area_km2   == FSub(CircleArea(moderate_r), CircleArea(severe_r))
        light_area_km2      == FSub(CircleArea(light_r), CircleArea(moderate_r))
        severe_casualties   == FMul(FMul(severe_area_km2, pop_density), Dec(9, -1))
        moderate_casualties == FMul(FMul(moderate_area_km2, pop_density), Dec(3, -1))
        light_casualties    == FMul(FMul(light_area_km2, pop_density), Dec(5, -2))
    IN  IF (isNaN(severe_r) \/ isNaN(moderate_r) \/ isNaN(light_r) \/ isNaN(pop_density))
           \/ (FLt(severe_r, Zero) \/ FLt(moderate_r, Zero) \/ FLt(light_r, Zero)
               \/ FLt(pop_density, Zero))
        THEN Throw("All inputs must be non-negative numeric values.")
        ELSE Return([severe_casualties   |-> FRound(severe_casualties),
                     moderate_casualties |-> FRound(moderate_casualties),
                     light_casualties    |-> FRound(light_casualties),
                     total_casualties    |->
                         FRound(FAdd(FAdd(severe_casualties, moderate_casualties),
                                     light_casualties)),
                     affected_areas      |->
                         [severe_area_km2   |-> severe_area_km2,
                          moderate_area_km2 |-> moderate_area_km2,
                          light_area_km2    |-> light_area_km2,
                          total_area_km2    |->
                              FAdd(FAdd(severe_area_km2, moderate_area_km2),
                                   light_area_km2)]])

\* estimateCasualties from the validation on, over the numeric values of its
\* arguments; the fatality rates are 90%, 30% and 5%.
CasualtiesOfNumbers(severe_r, moderate_r, light_r, pop_density) ==
    LET severe_area_km2     == CircleArea(severe_r)
        moderate_area_km2   == CircleArea(moderate_r)
        light_area_km2      == CircleArea(light_r)
        severe_casualties   == FMul(FMul(severe_area_km2, pop_density), Dec(9, -1))
        moderate_casualties == FMul(FMul(moderate_area_km2, pop_density), Dec(3, -1))
        light_casualties    == FMul(FMul(light_area_km2, pop_density), Dec(5, -2))
    IN  IF (isNaN(severe_r) \/ isNaN(moderate_r) \/ isNaN(light_r) \/ isNaN(pop_density))
           \/ (FLt(severe_r, Zero) \/ FLt(moderate_r, Zero) \/ FLt(light_r, Zero)
               \/ FLt(pop_density, Zero))
        THEN Throw("All inputs must be non-negative numeric values.")
        ELSE Return([severe_casualties   |-> FRound(severe_casualties),
                     moderate_casualties |-> FRound(moderate_casualties),
                     light_casualties    |-> FRound(light_casualties),
                     total_casualties    |->
                         FRound(FAdd(FAdd(severe_casualties, moderate_casualties),
                                     light_casualties)),
                     affected_areas      |->
                         [severe_area_km2   |-> severe_area_km2,
                          moderate_area_km2 |-> moderate_area_km2,
                          light_area_km2    |-> light_area_km2,
                          total_area_km2    |->
                              FAdd(FAdd(severe_area_km2, moderate_area_km2),
                                   light_area_km2)]])

\* population_density = 100 stands in for an undefined fourth argument.
estimateCasualties(severe_radius_km, moderate_radius_km, light_radius_km, population_density) ==
    CasualtiesOfNumbers(Number(severe_radius_km), Number(moderate_radius_km),
                        Number(light_radius_km),
                        IF population_density.t = "undefined"
                        THEN Int2Num(100) ELSE Number(population_density))

\* convertNasaDataToParameters: the number before the first space of the
\* Diameter and Velocity texts (parseFloat(text?.split(' ')[0]) || 0), in m
\* and m/s, with the density of a stony asteroid.  Reading a property of
\* null or undefined, or calling split on a value that is not a string,
\* throws a TypeError.
convertNasaDataToParameters(nasaData) ==
    LET Piece(str) ==
            SubSeq(str, 1, (CHOOSE i \in 1..(Len(str) + 1) :
                               /\ i = Len(str) + 1 \/ str[i] = " "
                               /\ \A j \in 1..(i - 1) : str[j] # " ") - 1)
        OrZero(n) == IF isNaN(n) THEN Zero ELSE n
        Km(v) == IF v.t \in {"undefined", "null"} THEN Zero
                 ELSE OrZero(parseFloat(Piece(v.s)))
        Splits(v) == v.t \in {"undefined", "null", "string"}
    IN  IF nasaData.t # "object"
        THEN Throw("Cannot read properties of " \o nasaData.t \o " (reading 'Diameter')")
        ELSE IF ~Splits(nasaData.Diameter)
        THEN Throw("nasaData.Diameter?.split is not a function")
        ELSE IF ~Splits(nasaData.Velocity)
        THEN Throw("nasaData.Velocity?.split is not a function")
        ELSE Return([diameter_m    |-> FMul(Km(nasaData.Diameter), Int2Num(1000)),
                     velocity_m_s  |-> FMul(Km(nasaData.Velocity), Int2Num(1000)),
                     density_kg_m3 |-> Int2Num(3000),
                     original_data |-> nasaData])

\* comprehensiveImpactAssessment without its try and catch: an exception of
\* a step leaves the function.
comprehensiveImpactAssessmentUnguarded(nasaData, population_density) ==
    CHOOSE returned \in
      { IF params.threw THEN params
        ELSE CHOOSE afterImpact \in
          { IF impactResults.threw THEN impactResults
            ELSE CHOOSE afterCrater \in
              { IF craterResults.threw THEN craterResults
                ELSE CHOOSE afterCasualties \in
                  { IF casualtyResults.threw THEN casualtyResults
                    ELSE Return(
                      [asteroid_info |->
                          [designation   |->
                               IF nasaData.des.t = "string" /\ nasaData.des.s # <<>>
                               THEN nasaData.des
                               ELSE IF nasaData.Full_Name.t = "string"
                                       /\ nasaData.Full_Name.s # <<>>
                               THEN nasaData.Full_Name
                               ELSE JSString(<<"Unknown">>),
                           diameter_km   |-> FDiv(params.value.diameter_m, Int2Num(1000)),
                           velocity_km_s |-> FDiv(params.value.velocity_m_s, Int2Num(1000)),
                           density_kg_m3 |-> params.value.density_kg_m3],
                       impact_assessment   |-> impactResults.value,
                       crater_analysis     |-> craterResults.value,
                       casualty_estimation |-> casualtyResults.value,
                       nasa_data           |-> nasaData]) :
                    casualtyResults \in
                      {estimateCasualties(JSNumber(impactResults.value.severe_radius_km),
                                          JSNumber(impactResults.value.moderate_radius_km),
                                          JSNumber(impactResults.value.light_radius_km),
                                          IF population_density.t = "undefined"
                                          THEN JSNumber(Int2Num(100))
                                          ELSE population_density)} } : TRUE :
                craterResults \in
                  {calculateCraterDimensions(JSNumber(params.value.diameter_m),
                                             JSNumber(params.value.velocity_m_s),
                                             JSNumber(params.value.density_kg_m3))} } : TRUE :
            impactResults \in
              {calculateImpactRadius(JSNumber(params.value.density_kg_m3),
                                     JSNumber(params.value.velocity_m_s),
                                     JSNumber(params.value.diameter_m))} } : TRUE :
        params \in {convertNasaDataToParameters(nasaData)} } : TRUE

\* comprehensiveImpactAssessment, had it passed the crater function its
\* arguments in the order of calculateImpactRadius (density, speed, diameter).
comprehensiveImpactAssessmentSameOrder(nasaData, population_density) ==
    CHOOSE returned \in
      { IF params.threw THEN Return([error |-> params.error, nasa_data |-> nasaData])
        ELSE CHOOSE afterImpact \in
          { IF impactResults.threw THEN Return([error |-> impactResults.error, nasa_data |-> nasaData])
            ELSE CHOOSE afterCrater \in
              { IF craterResults.threw THEN Return([error |-> craterResults.error, nasa_data |-> nasaData])
                ELSE CHOOSE afterCasualties \in
                  { IF casualtyResults.threw THEN Return([error |-> casualtyResults.error, nasa_data |-> nasaData])
                    ELSE Return(
                      [asteroid_info |->
                          [designation   |->
                               IF nasaData.des.t = "string" /\ nasaData.des.s # <<>>
                               THEN nasaData.des
                               ELSE IF nasaData.Full_Name.t = "string"
                                       /\ nasaData.Full_Name.s # <<>>
                               THEN nasaData.Full_Name
                               ELSE JSString(<<"Unknown">>),
                           diameter_km   |-> FDiv(params.value.diameter_m, Int2Num(1000)),
                           velocity_km_s |-> FDiv(params.value.velocity_m_s, Int2Num(1000)),
                           density_kg_m3 |-> params.value.density_kg_m3],
                       impact_assessment   |-> impactResults.value,
                       crater_analysis     |-> craterResults.value,
                       casualty_estimation |-> casualtyResults.value,
                       nasa_data           |-> nasaData]) :
                    casualtyResults \in
                      {estimateCasualties(JSNumber(impactResults.value.severe_radius_km),
                                          JSNumber(impactResults.value.moderate_radius_km),
                                          JSNumber(impactResults.value.light_radius_km),
                                          IF population_density.t = "undefined"
                                          THEN JSNumber(Int2Num(100))
                                          ELSE population_density)} } : TRUE :
                craterResults \in
                  {calculateCraterDimensions(JSNumber(params.value.density_kg_m3),
                                             JSNumber(params.value.velocity_m_s),
                                             JSNumber(params.value.diameter_m))} } : TRUE :
            impactResults \in
              {calculateImpactRadius(JSNumber(params.value.density_kg_m3),
                                     JSNumber(params.value.velocity_m_s),
                                     JSNumber(params.value.diameter_m))} } : TRUE :
        params \in {convertNasaDataToParameters(nasaData)} } : TRUE

\* comprehensiveImpactAssessment(nasaData, population_density = 100): the
\* three calculations on the converted parameters, in the order of the try
\* block (read from the bottom up: params, impactResults, craterResults,
\* casualtyResults, each a const computed once); the first exception is
\* caught and its message returned with the NASA record.  The value is what
\* the function returns.
comprehensiveImpactAssessment(nasaData, population_density) ==
    CHOOSE returned \in
      { IF params.threw THEN Return([error |-> params.error, nasa_data |-> nasaData])
        ELSE CHOOSE afterImpact \in
          { IF impactResults.threw THEN Return([error |-> impactResults.error, nasa_data |-> nasaData])
            ELSE CHOOSE afterCrater \in
              { IF craterResults.threw THEN Return([error |-> craterResults.error, nasa_data |-> nasaData])
                ELSE CHOOSE afterCasualties \in
                  { IF casualtyResults.threw THEN Return([error |-> casualtyResults.error, nasa_data |-> nasaData])
                    ELSE Return(
                      [asteroid_info |->
                          [designation   |->
                               IF nasaData.des.t = "string" /\ nasaData.des.s # <<>>
                               THEN nasaData.des
                               ELSE IF nasaData.Full_Name.t = "string"
                                       /\ nasaData.Full_Name.s # <<>>
                               THEN nasaData.Full_Name
                               ELSE JSString(<<"Unknown">>),
                           diameter_km   |-> FDiv(params.value.diameter_m, Int2Num(1000)),
                           velocity_km_s |-> FDiv(params.value.velocity_m_s, Int2Num(1000)),
                           density_kg_m3 |-> params.value.density_kg_m3],
                       impact_assessment   |-> impactResults.value,
                       crater_analysis     |-> craterResults.value,
                       casualty_estimation |-> casualtyResults.value,
                       nasa_data           |-> nasaData]) :
                    casualtyResults \in
                      {estimateCasualties(JSNumber(impactResults.value.severe_radius_km),
                                          JSNumber(impactResults.value.moderate_radius_km),
                                          JSNumber(impactResults.value.light_radius_km),
                                          IF population_density.t = "undefined"
                                          THEN JSNumber(Int2Num(100))
                                          ELSE population_density)} } : TRUE :
                craterResults \in
                  {calculateCraterDimensions(JSNumber(params.value.diameter_m),
                                             JSNumber(params.value.velocity_m_s),
                                             JSNumber(params.value.density_kg_m3))} } : TRUE :
            impactResults \in
              {calculateImpactRadius(JSNumber(params.value.density_kg_m3),
                                     JSNumber(params.value.velocity_m_s),
                                     JSNumber(params.value.diameter_m))} } : TRUE :
        params \in {convertNasaDataToParameters(nasaData)} } : TRUE

\* ------------------------------------------------------------------------
\* Number to string
\* ------------------------------------------------------------------------

DigitChar(d) == <<"0", "1", "2", "3", "4", "5", "6", "7", "8", "9">>[d + 1]

\* The decimal digits of the natural number n.
RECURSIVE NatToString(_)
NatToString(n) ==
    IF n < 10 THEN <<DigitChar(n)>> ELSE Append(NatToString(n \div 10), DigitChar(n % 10))

\* n zeros.
Zeros(n) == [i \in 1..n |-> "0"]

\* Number.prototype.toFixed(2) of h hundredths, h >= 0.
HundredthsToString(h) ==
    NatToString(h \div 100) \o <<".", DigitChar((h \div 10) % 10), DigitChar(h % 10)>>

\* Number.prototype.toFixed(2)
toFixed2(a) ==
    IF isNaN(a) THEN <<"N", "a", "N">>
    ELSE (IF a.m < 0 THEN <<"-">> ELSE <<>>)
         \o (IF a.k = "inf" THEN InfinityWord
             ELSE IF a.x >= 0 THEN NatToString(Abs(a.m)) \o Zeros(a.x) \o <<".", "0", "0">>
             ELSE IF a.x >= -2 THEN HundredthsToString(Abs(a.m) * Pow10(a.x + 2))
             ELSE IF a.x >= -5
             THEN HundredthsToString((2 * Abs(a.m) + Pow10(-a.x - 2)) \div (2 * Pow10(-a.x - 2)))
             ELSE <<"0", ".", "0", "0">>)

\* Number.prototype.toExponential(2)
toExponential2(a) ==
    IF isNaN(a) THEN <<"N", "a", "N">>
    ELSE (IF a.m < 0 THEN <<"-">> ELSE <<>>)
         \o (IF a.k = "inf" THEN InfinityWord
             ELSE IF a.m = 0 THEN <<"0", ".", "0", "0", "e", "+", "0">>
             ELSE <<DigitChar(Abs(a.m) \div 100), ".", DigitChar((Abs(a.m) \div 10) % 10),
                    DigitChar(Abs(a.m) % 10), "e", IF a.x + 2 < 0 THEN "-" ELSE "+">>
                  \o NatToString(Abs(a.x + 2)))

\* ------------------------------------------------------------------------
\* Palermo scale calculator
\* ------------------------------------------------------------------------

\* !x for a number x: true of 0 and NaN.
Falsy(a) == isNaN(a) \/ IsZero(a)

\* A_d = 6.3e-3, b_d = 2.7; the result is a number or null.
estimateFBfromDiameter(d_m) ==
    LET fb == FMul(Dec(63, -4), FPow(FDiv(d_m, Int2Num(1000)), Dec(-27, -1)))
    IN  IF Falsy(d_m) \/ FLe(d_m, Zero) THEN JSNull
        ELSE IF isFinite(fb) /\ FGt(fb, Zero) THEN JSNumber(fb) ELSE JSNull

\* A_e = 1.1774080373049495e-2, alpha_e = 0.9; the result is a number or null.
estimateFBfromEnergy(E_mt) ==
    LET fb == FMul(Dec(118, -4), FPow(E_mt, Dec(-9, -1)))
    IN  IF Falsy(E_mt) \/ FLe(E_mt, Zero) THEN JSNull
        ELSE IF isFinite(fb) /\ FGt(fb, Zero) THEN JSNumber(fb) ELSE JSNull

\* MT_J = 4.184e15
energyFromSizeMt(d_m, rho, v_kms) ==
    LET m  == FMul(FMul(FDiv(PI, Int2Num(6)), rho), FPowInt(d_m, 3))
        v  == FMul(v_kms, Int2Num(1000))
        EJ == FMul(FMul(FMul(Dec(5, -1), m), v), v)
    IN  IF Falsy(d_m) \/ Falsy(rho) \/ Falsy(v_kms)
           \/ FLe(d_m, Zero) \/ FLe(rho, Zero) \/ FLe(v_kms, Zero)
        THEN NaN
        ELSE FDiv(EJ, Dec(4184, 12))

\* The neutral placeholder, an em dash.
Placeholder == <<"(em dash)">>

\* fmtSci: toExponential(2) without the '+' of the exponent.
fmtSci(a) ==
    IF ~isFinite(a) \/ FLe(a, Zero) THEN Placeholder
    ELSE SelectSeq(toExponential2(a), LAMBDA c : c # "+")

\* fmtNum with n = 2
fmtNum(a) == IF isFinite(a) THEN toFixed2(a) ELSE Placeholder

\* The Palermo value of recalc: NaN unless the three inputs pass the test.
PalermoScale(Pi, Ti, fbVal) ==
    IF isFinite(Pi) /\ FGt(Pi, Zero) /\ isFinite(Ti) /\ FGt(Ti, Zero)
       /\ isFinite(fbVal) /\ FGt(fbVal, Zero)
    THEN FLog10(FDiv(FDiv(Pi, Ti), fbVal))
    ELSE NaN

\* The PS field without the isFinite test.
psTextUnguarded(PS) == toFixed2(PS)

\* psEl.textContent
psText(PS) == IF isFinite(PS) THEN fmtNum(PS) ELSE Placeholder

\* psInterpEl.textContent
psInterpText(PS) ==
    IF isFinite(PS)
    THEN IF FGt(PS, Zero) THEN <<"Above background risk">>
         ELSE IF FGt(PS, Int2Num(-2)) THEN <<"Comparable to background">>
         ELSE <<"Well below background">>
    ELSE Placeholder

\* recalc from the output section on: the fields after the auto-estimate wrote
\* fbEl, and the texts shown; E_mt, fbVal and PS are the values of the locals.
RecalcOutputs(fields, E_mt, fbVal, fbSrc, PS) ==
    [fields |-> fields,
     E_mt |-> E_mt, fbVal |-> fbVal, PS |-> PS,
     energyMtEl |-> IF isFinite(E_mt) THEN fmtNum(E_mt) \o <<" Mt">> ELSE Placeholder,
     energyJEl  |-> IF isFinite(E_mt) /\ isFinite(FMul(E_mt, Dec(4184, 12)))
                    THEN fmtSci(FMul(E_mt, Dec(4184, 12))) \o <<" J">> ELSE Placeholder,
     fbEchoEl   |-> IF isFinite(fbVal) THEN fmtSci(fbVal) \o <<" /yr">> ELSE Placeholder,
     fbNoteEl   |-> <<"source: ">> \o fbSrc,
     psEl       |-> psText(PS),
     psInterpEl |-> psInterpText(PS)]

\* recalc from the auto-estimate on: est is the estimate of the active mode
\* (null when auto-estimate is unchecked), autoSrc its label.
RecalcWithEstimate(fields, Pi, Ti, E_mt, est, autoSrc) ==
    IF est.t = "number" /\ ~Falsy(est.n)
    THEN RecalcOutputs([fields EXCEPT !.fbEl = toExponential2(est.n)],
                       E_mt, est.n, autoSrc, PalermoScale(Pi, Ti, est.n))
    ELSE RecalcOutputs(fields, E_mt, parseFloat(fields.fbEl), <<"manual">>,
                       PalermoScale(Pi, Ti, parseFloat(fields.fbEl)))

\* A recalc that takes the estimate from the energy field in both modes.
recalcEstimatingFromEnergy(fields) ==
    RecalcWithEstimate(fields, parseFloat(fields.piEl), parseFloat(fields.tiEl),
        IF fields.modeEnergy THEN parseFloat(fields.EmtEl)
        ELSE energyFromSizeMt(parseFloat(fields.dEl), parseFloat(fields.rhoEl),
                              parseFloat(fields.vEl)),
        IF fields.autoFb THEN estimateFBfromEnergy(parseFloat(fields.EmtEl)) ELSE JSNull,
        <<"auto (from energy)">>)

recalc(fields) ==
    IF fields.modeEnergy
    THEN RecalcWithEstimate(fields, parseFloat(fields.piEl), parseFloat(fields.tiEl),
             parseFloat(fields.EmtEl),
             IF fields.autoFb THEN estimateFBfromEnergy(parseFloat(fields.EmtEl)) ELSE JSNull,
             <<"auto (from energy)">>)
    ELSE RecalcWithEstimate(fields, parseFloat(fields.piEl), parseFloat(fields.tiEl),
             energyFromSizeMt(parseFloat(fields.dEl), parseFloat(fields.rhoEl),
                              parseFloat(fields.vEl)),
             IF fields.autoFb THEN estimateFBfromDiameter(parseFloat(fields.dEl)) ELSE JSNull,
             <<"auto (from diameter)">>)

\* ------------------------------------------------------------------------
\* Solar system scene: numbers and strings of the controls
\* ------------------------------------------------------------------------

\* Number::toString: the shortest decimal digits of a number, in positional
\* notation from 10^-6 up to 10^21 and in exponent notation beyond.
NumberToString(a) ==
    IF isNaN(a) THEN <<"N", "a", "N">>
    ELSE IF a.m = 0 THEN <<"0">>
    ELSE (IF a.m < 0 THEN <<"-">> ELSE <<>>)
         \o (IF a.k = "inf" THEN InfinityWord
             ELSE LET am == Abs(a.m)
                      ds == NatToString(IF am % 100 = 0 THEN am \div 100
                                        ELSE IF am % 10 = 0 THEN am \div 10 ELSE am)
                      n  == a.x + 3
                  IN  IF Len(ds) <= n /\ n <= 21 THEN ds \o Zeros(n - Len(ds))
                      ELSE IF 0 < n /\ n <= 21
                      THEN SubSeq(ds, 1, n) \o <<".">> \o SubSeq(ds, n + 1, Len(ds))
                      ELSE IF -6 < n /\ n <= 0 THEN <<"0", ".">> \o Zeros(-n) \o ds
                      ELSE <<ds[1]>> \o (IF Len(ds) > 1 THEN <<".">> \o Tail(ds) ELSE <<>>)
                           \o <<"e", IF n - 1 < 0 THEN "-" ELSE "+">> \o NatToString(Abs(n - 1)))

\* parseInt(s): the integer that the leading sign and decimal digits of s
\* spell, NaN when there is no digit.
parseInt(s) ==
    LET i  == SkipWhite(s, 1)
        sg == IF i <= Len(s) /\ s[i] = "-" THEN -1 ELSE 1
        j  == IF i <= Len(s) /\ s[i] \in {"+", "-"} THEN i + 1 ELSE i
    IN  IF DigitsEnd(s, j) = j THEN NaN
        ELSE IF DigitsVal(s, j, DigitsEnd(s, j)) = 0 THEN Zero
        ELSE Fin(sg, DigitsVal(s, j, DigitsEnd(s, j)), 0)

\* Number.prototype.toFixed(1) of a finite number of magnitude below 10^21.
toFixed1(a) ==
    IF isNaN(a) THEN <<"N", "a", "N">>
    ELSE (IF a.m < 0 THEN <<"-">> ELSE <<>>)
         \o (IF a.k = "inf" THEN InfinityWord
             ELSE IF a.x >= 0 THEN NatToString(Abs(a.m)) \o Zeros(a.x) \o <<".", "0">>
             ELSE IF a.x >= -5
             THEN LET t == (2 * Abs(a.m) + Pow10(-a.x - 1)) \div (2 * Pow10(-a.x - 1))
                  IN  NatToString(t \div 10) \o <<".", DigitChar(t % 10)>>
             ELSE <<"0", ".", "0">>)

\* formatTimeSpeed(speed): the speed in the largest unit it reaches.
formatTimeSpeed(speed) ==
    IF FLt(speed, Int2Num(60)) THEN toFixed1(speed) \o <<" sec/sec">>
    ELSE IF FLt(speed, Int2Num(3600)) THEN toFixed1(FDiv(speed, Int2Num(60))) \o <<" min/sec">>
    ELSE IF FLt(speed, Int2Num(86400))
    THEN toFixed1(FDiv(speed, Int2Num(3600))) \o <<" hours/sec">>
    ELSE IF FLt(speed, FMul(Int2Num(86400), Dec(3044, -2)))
    THEN toFixed1(FDiv(speed, Int2Num(86400))) \o <<" days/sec">>
    ELSE IF FLt(speed, FMul(Int2Num(86400), Dec(36525, -2)))
    THEN toFixed1(FDiv(speed, FMul(Int2Num(86400), Dec(3044, -2)))) \o <<" months/sec">>
    ELSE toFixed1(FDiv(speed, FMul(Int2Num(86400), Dec(36525, -2)))) \o <<" years/sec">>

\* ------------------------------------------------------------------------
\* Solar system scene: bodies, scale strategies, orbit propagation
\* ------------------------------------------------------------------------

\* One astronomical unit in kilometres.
AU == Dec(1495978707, -1)

\* The diameter of the Sun in kilometres.
SUN_DIAMETER == 1392700

\* Kilometres per scene unit of the true scale.
TRUE_SCALE_KM_PER_UNIT == 10000000

\* The planets the model follows (two of the eight rows of planetaryData).
planetaryData ==
    [earth |-> [diameter |-> Int2Num(12756), rotationPeriod |-> Dec(239345, -4),
                a |-> Dec(1000002, -6), e |-> Dec(16708, -6), i |-> Zero,
                L |-> Dec(10046435, -5), varpi |-> Dec(10294719, -5), Omega |-> Zero,
                orbitalPeriod |-> Dec(365256, -3)],
     mars  |-> [diameter |-> Int2Num(6792), rotationPeriod |-> Dec(246229, -4),
                a |-> Dec(1523679, -6), e |-> Dec(9340, -5), i |-> Dec(1850, -3),
                L |-> Dec(35545332, -5), varpi |-> Dec(33604084, -5),
                Omega |-> Dec(4957854, -5), orbitalPeriod |-> Dec(686980, -3)]]

\* The near-Earth objects the model follows (the first row of neoData).
neoData ==
    [neo_0 |-> [a |-> Dec(223, -2), e |-> Dec(708, -3), i |-> Dec(247, -1),
                Omega |-> Dec(861, -1), varpi |-> Dec(756, -1), M0 |-> Dec(244426767, -2)]]

\* The userData createNEOs gives the mesh of a near-Earth object.
userData(data) ==
    [a |-> data.a, e |-> data.e, i |-> data.i,
     L |-> FRem(FAdd(data.M0, data.varpi), Int2Num(360)),
     varpi |-> data.varpi, Omega |-> data.Omega,
     orbitalPeriod |-> FMul(FSqrt(FPowInt(data.a, 3)), Dec(36525, -2)),
     enhancedRadius |-> Dec(8, -1)]

\* The keys of allBodies, and the data of each.
PlanetKeys == DOMAIN planetaryData

allBodies == [key \in PlanetKeys \cup DOMAIN neoData |->
                 IF key \in PlanetKeys THEN planetaryData[key] ELSE userData(neoData[key])]

\* The distance function of a scale strategy (enhancedScale, trueScale).
distance(strategy, d) ==
    IF strategy = "enhancedScale"
    THEN FAdd(FMul(FMul(FLog10(FDiv(FMul(d, AU), Dec(1, 6))), FSqrt(d)), Int2Num(40)),
              FMul(Int2Num(10), FCbrt(FLog10(FDiv(FMul(d, AU), Dec(1, 4))))))
    ELSE FDiv(FMul(d, AU), Int2Num(TRUE_SCALE_KM_PER_UNIT))

\* The size function of a scale strategy.
size(strategy, s) ==
    IF strategy = "enhancedScale" THEN FLog2(s) ELSE FDiv(s, Int2Num(TRUE_SCALE_KM_PER_UNIT))

\* THREE.MathUtils.degToRad
degToRad(degrees) == FMul(degrees, FDiv(PI, Int2Num(180)))

\* solveKepler(M, e): seven Newton steps from E = M.
RECURSIVE KeplerLoop(_, _, _, _)
KeplerLoop(E, M, e, i) ==
    IF i >= 7 THEN E
    ELSE KeplerLoop(FSub(E, FDiv(FSub(FSub(E, FMul(e, FSin(E))), M),
                                 FSub(Int2Num(1), FMul(e, FCos(E))))),
                    M, e, i + 1)

solveKepler(M, e) == KeplerLoop(M, M, e, 0)

\* The mean anomaly in degrees, days days after J2000.
MeanAnomaly(data, days) ==
    FRem(FAdd(FSub(data.L, data.varpi),
              FMul(FDiv(Int2Num(360), data.orbitalPeriod), days)),
         Int2Num(360))

\* The position in the orbital plane, Vector3(x_orb, 0, -y_orb).
OrbitPlane(data, E, a_scaled) ==
    [x |-> FMul(a_scaled, FSub(FCos(E), data.e)),
     y |-> Zero,
     z |-> FNeg(FMul(FMul(a_scaled, FSqrt(FSub(Int2Num(1), FPowInt(data.e, 2)))), FSin(E)))]

\* The vector v under Matrix4.makeRotationY(theta).
RotationY(v, theta) ==
    [x |-> FAdd(FMul(FCos(theta), v.x), FMul(FSin(theta), v.z)),
     y |-> v.y,
     z |-> FAdd(FMul(FNeg(FSin(theta)), v.x), FMul(FCos(theta), v.z))]

\* The vector v under Matrix4.makeRotationX(theta).
RotationX(v, theta) ==
    [x |-> v.x,
     y |-> FSub(FMul(FCos(theta), v.y), FMul(FSin(theta), v.z)),
     z |-> FAdd(FMul(FSin(theta), v.y), FMul(FCos(theta), v.z))]

\* The position updatePositions gives a body: the orbital plane position
\* under the matrix Y(Omega) * X(i) * Y(varpi), applied factor by factor.
BodyPosition(data, days, strategy) ==
    RotationY(RotationX(RotationY(OrbitPlane(data,
                                             solveKepler(degToRad(MeanAnomaly(data, days)),
                                                         data.e),
                                             distance(strategy, data.a)),
                                  degToRad(data.varpi)),
                        degToRad(data.i)),
              degToRad(data.Omega))

\* The vector v under Matrix4.makeRotationZ(theta).
RotationZ(v, theta) ==
    [x |-> FSub(FMul(FCos(theta), v.x), FMul(FSin(theta), v.y)),
     y |-> FAdd(FMul(FSin(theta), v.x), FMul(FCos(theta), v.y)),
     z |-> v.z]

\* The position the other version of the scene script gives a body:
\* Vector3(x_orb, y_orb, 0) under Z(omega), then X(i), then Z(Omega), with
\* omega = varpi - Omega, and then position.set(pos.x, pos.z, -pos.y).
PositionByPerihelionArgument(data, days, strategy) ==
    LET Ecliptic(orb) == [x |-> orb.x, y |-> FNeg(orb.z), z |-> Zero]
        World(pos) == [x |-> pos.x, y |-> pos.z, z |-> FNeg(pos.y)]
    IN  World(RotationZ(RotationX(RotationZ(Ecliptic(OrbitPlane(data,
                                    solveKepler(degToRad(MeanAnomaly(data, days)), data.e),
                                    distance(strategy, data.a))),
                                            degToRad(FSub(data.varpi, data.Omega))),
                                  degToRad(data.i)),
                        degToRad(data.Omega)))

\* The ends of the slider's range.
minp == 0

maxp == 1000

\* The logarithm of the time speed per step of the slider,
\* (maxv - minv) / (maxp - minp), with minv = Math.log(1) and
\* maxv = Math.log(86400 * 365 * 20).
scale ==
    FDiv(FSub(FLog(FMul(FMul(Int2Num(86400), Int2Num(365)), Int2Num(20))), FLog(Int2Num(1))),
         FSub(Int2Num(maxp), Int2Num(minp)))

\* updateSpeed: the time speed for the slider's value.
updateSpeed(value) ==
    FExp(FAdd(FLog(Int2Num(1)), FMul(scale, FSub(parseInt(value), Int2Num(minp)))))

\* The slider value setupUI computes for the speed of one day per second.
InitialSliderValue ==
    FAdd(FDiv(FSub(FLog(Int2Num(86400)), FLog(Int2Num(1))), scale), Int2Num(minp))

\* The slider value the time-forward button sets, without the upper limit.
ForwardUnlimited(value) == FAdd(parseInt(value), Int2Num(50))

\* The slider value the time-forward button sets: Math.min(.. + 50, 1000).
ForwardValue(value) ==
    IF isNaN(parseInt(value)) THEN NaN
    ELSE IF FLt(Int2Num(1000), FAdd(parseInt(value), Int2Num(50))) THEN Int2Num(1000)
    ELSE FAdd(parseInt(value), Int2Num(50))

\* The slider value the time-backward button sets: Math.max(.. - 50, 0).
BackwardValue(value) ==
    IF isNaN(parseInt(value)) THEN NaN
    ELSE IF FLt(FSub(parseInt(value), Int2Num(50)), Zero) THEN Zero
    ELSE FSub(parseInt(value), Int2Num(50))

\* An instant is a whole number of milliseconds after J2000, kept as seconds
\* and milliseconds.  new Date(time.getTime() + delta) for a finite delta >= 0:
\* a Date keeps whole milliseconds and drops the fraction.
NewDate(time, delta) ==
    IF delta.m = 0 \/ delta.x < -3 THEN time
    ELSE IF delta.x >= 3
    THEN [s |-> time.s + delta.m * Pow10(delta.x - 3), ms |-> time.ms]
    ELSE LET total == time.ms + (IF delta.x >= 0 THEN delta.m * Pow10(delta.x)
                                 ELSE delta.m \div Pow10(-delta.x))
         IN  [s |-> time.s + total \div 1000, ms |-> total % 1000]

\* (simulationTime.getTime() - J2000.getTime()) / 86400000
daysSinceJ2000(time) ==
    FDiv(IF time.s < 1000000 THEN Fin(1, time.s * 1000 + time.ms, 0) ELSE Fin(1, time.s, 3),
         Int2Num(86400000))

\* The orbit path, had its centre been left unscaled.
OrbitCurveCentreUnscaled(data, a) ==
    [aX |-> FMul(FNeg(data.a), data.e), xRadius |-> a,
     yRadius |-> FMul(a, FSqrt(FSub(Int2Num(1), FPowInt(data.e, 2))))]

\* The ellipse updateScales draws for an orbit: EllipseCurve(-a * e, 0, a, b).
OrbitCurve(data, a) ==
    [aX |-> FMul(FNeg(a), data.e), xRadius |-> a,
     yRadius |-> FMul(a, FSqrt(FSub(Int2Num(1), FPowInt(data.e, 2))))]

\* updateScales, had it rescaled every body from the scale it has.
updateScalesRelative(objects, strategy) ==
    [key \in DOMAIN objects |->
        [objects[key] EXCEPT !.scale = FMul(@, size(strategy, Int2Num(SUN_DIAMETER)))]]

\* updateScales: the size of the Sun, of every planet and of every near-Earth
\* object, and every orbit path, under the strategy.
updateScales(objects, strategy) ==
    [key \in DOMAIN objects |->
        IF key = "sun"
        THEN [objects[key] EXCEPT !.scale = size(strategy, Int2Num(SUN_DIAMETER))]
        ELSE [objects[key] EXCEPT
                 !.scale = size(strategy, IF key \in PlanetKeys THEN allBodies[key].diameter
                                          ELSE allBodies[key].enhancedRadius),
                 !.orbit = OrbitCurve(allBodies[key], distance(strategy, allBodies[key].a))]]

\* The part of updatePositions that is for planets only: the spin of the
\* planet (and of the clouds of the Earth) and the height of the label.
SpinPlanet(obj, key, rotation, scaledDiameter) ==
    IF key = "earth"
    THEN [obj EXCEPT !.rotationY = FAdd(@, rotation),
                     !.cloudsY = FAdd(@, FMul(rotation, Dec(12, -1))),
                     !.labelY = FAdd(FMul(scaledDiameter, Dec(15, -1)), Int2Num(5))]
    ELSE [obj EXCEPT !.rotationY = FAdd(@, rotation),
                     !.labelY = FAdd(FMul(scaledDiameter, Dec(15, -1)), Int2Num(5))]

\* The loop of updatePositions over allBodies.
PlaceBodies(objects, days, strategy, elapsedTime, speed) ==
    [key \in DOMAIN objects |->
        IF key \notin DOMAIN allBodies THEN objects[key]
        ELSE IF key \in PlanetKeys
        THEN SpinPlanet([objects[key] EXCEPT
                            !.position = BodyPosition(allBodies[key], days, strategy)],
                        key,
                        FMul(FMul(FMul(elapsedTime,
                                       FDiv(speed, FMul(allBodies[key].rotationPeriod,
                                                        Int2Num(3600)))),
                                  Int2Num(2)), PI),
                        size(strategy, allBodies[key].diameter))
        ELSE [objects[key] EXCEPT !.position = BodyPosition(allBodies[key], days, strategy)]]

\* updatePositions once the clock has the new instant.
Propagate(time, speed, strategy, objects, elapsedTime) ==
    [simulationTime |-> time, dateDisplay |-> time,
     celestialObjects |-> PlaceBodies(objects, daysSinceJ2000(time), strategy, elapsedTime, speed)]

\* updatePositions without its test of isPaused.
updatePositionsAlways(paused, time, speed, strategy, objects, display, elapsedTime) ==
    Propagate(NewDate(time, FMul(FMul(elapsedTime, speed), Int2Num(1000))),
              speed, strategy, objects, elapsedTime)

\* updatePositions(elapsedTime): what it leaves in simulationTime, in the date
\* display and in celestialObjects.
updatePositions(paused, time, speed, strategy, objects, display, elapsedTime) ==
    IF paused
    THEN [simulationTime |-> time, dateDisplay |-> display, celestialObjects |-> objects]
    ELSE Propagate(NewDate(time, FMul(FMul(elapsedTime, speed), Int2Num(1000))),
                   speed, strategy, objects, elapsedTime)

\* ------------------------------------------------------------------------
\* Solar system scene: the Kepler solver and the mean anomaly to eight places
\* ------------------------------------------------------------------------

\* The numbers of this section are whole multiples of 10^-8 (radians, or pure
\* numbers), of magnitude below 21.

\* a * b
FxMul(a, b) ==
    Sgn(a) * Sgn(b)
      * ((Abs(a) \div 10000) * (Abs(b) \div 10000)
         + ((Abs(a) \div 10000) * (Abs(b) % 10000) + (Abs(a) % 10000) * (Abs(b) \div 10000)
            + ((Abs(a) % 10000) * (Abs(b) % 10000)) \div 10000) \div 10000)

\* The quotient q of a long division that has the remainder r and has
\* places more decimal places to produce; b is the divisor.
RECURSIVE FxDivPlaces(_, _, _, _)
FxDivPlaces(q, r, b, places) ==
    IF places = 0 THEN q
    ELSE FxDivPlaces(q * 10 + (r * 10) \div b, (r * 10) % b, b, places - 1)

\* sin(r) / r for r * r = x2, by the terms of the series from the k-th on,
\* to the power 13.
RECURSIVE FxSinSeries(_, _)
FxSinSeries(x2, k) ==
    IF k > 12 THEN 100000000
    ELSE 100000000 - FxMul(x2, FxSinSeries(x2, k + 2)) \div (k * (k + 1))

\* Math.sin: x is brought into a quarter turn either side of 0 with the same
\* sine.
FxSin(x) ==
    LET r == x % 628318531
        q == IF r > 471238898 THEN r - 628318531
             ELSE IF r > 157079633 THEN 314159265 - r
             ELSE r
    IN  FxMul(q, FxSinSeries(FxMul(q, q), 2))

\* solveKepler: the Newton steps from the i-th on.  The divisor 1 - e cos E
\* is positive for e < 1.
RECURSIVE KeplerFixed(_, _, _, _)
KeplerFixed(E, M, e, i) ==
    IF i >= 7 THEN E
    ELSE LET f == E - FxMul(e, FxSin(E)) - M
             d == 100000000 - FxMul(e, FxSin(E + 157079633))
         IN  KeplerFixed(E - Sgn(f) * FxDivPlaces(Abs(f) \div d, Abs(f) % d, d, 8),
                         M, e, i + 1)

\* solveKepler, had it taken three Newton steps.
solveKeplerThreeSteps(M, e) == KeplerFixed(M, M, e, 4)

\* solveKepler(M, e)
solveKeplerFixed(M, e) == KeplerFixed(M, M, e, 0)

\* ------------------------------------------------------------------------
\* State
\* ------------------------------------------------------------------------

VARIABLES
    engineCall,     \* the last call made to the impact physics engine, and the
                    \* function called before it
    engineRet,      \* what that call returned or threw
    calc,           \* the calculator page: its input fields, the texts it shows,
                    \* and the values recalc last held in E_mt, fbVal and PS
    blockHidden,    \* whether the energy block and the size block are hidden
    simulationTime, \* the simulated instant
    timeSpeed,      \* simulated seconds per second
    isPaused,       \* whether the simulation is paused
    slider,         \* the value of the time speed slider, a string
    scaleMode,      \* 'enhanced' or 'true'
    currentScale,   \* the scale strategy in use: enhancedScale or trueScale
    celestialObjects, \* the Sun, the planets and the near-Earth objects of the
                    \* scene: size, orbit path, position, spin, label height
    dom,            \* the date display, the speed label and the buttons
    frames,         \* how many frames have run
    speedChanges,   \* how many times the time speed has been set
    lastEvent,      \* the kind of the event handled last (init, frame, input,
                    \* click or scale), the elapsed time of a frame, and the
                    \* strategy a click on a scale button found in use
    neos,           \* the scene that loads its near-Earth objects from the
                    \* server: where createNEOs stands, celestialObjects.neos
                    \* (whether assigned, how often, the children of its
                    \* group) and whether a handler read a property of it
                    \* while it was undefined
    orbitCall,      \* a call of one of the functions of the propagator
    orbitRet        \* what that call computed

engineVars == <<engineCall, engineRet>>

calcVars == <<calc, blockHidden>>

sceneVars == <<simulationTime, timeSpeed, isPaused, slider, scaleMode, currentScale,
               celestialObjects, dom, frames, speedChanges, lastEvent, neos>>

vars == <<engineCall, engineRet, calc, blockHidden, simulationTime, timeSpeed, isPaused,
          slider, scaleMode, currentScale, celestialObjects, dom, frames, speedChanges,
          lastEvent, neos, orbitCall, orbitRet>>

\* ------------------------------------------------------------------------
\* Calls to the impact physics engine
\* ------------------------------------------------------------------------

\* Arguments a caller may pass for density, speed and diameter.
PhysicalArgs ==
    { JSNumber(Int2Num(3000)), JSNumber(Int2Num(20000)), JSNumber(Int2Num(100)),
      JSNumber(Int2Num(735)), JSNumber(Int2Num(5000)),
      JSNumber(Zero), JSNumber(Int2Num(-1)),
      JSNumber(NaN), JSNumber(PosInf), JSNumber(NegInf),
      JSNumber([k |-> "fin", m |-> 100, x |-> -MaxExp]),  \* Number.MIN_VALUE
      JSNumber([k |-> "fin", m |-> 999, x |-> MaxExp]),   \* Number.MAX_VALUE
      JSUndefined, JSNull, [t |-> "boolean", n |-> NaN, s |-> <<>>, b |-> TRUE],
      JSString(<<"a", "b", "c">>), JSString(<<>>), JSString(<<"5">>) }

\* Arguments a caller may pass for the radii and the population density.
RadiusArgs ==
    { JSNumber(Dec(122, -3)), JSNumber(Int2Num(5)), JSNumber(Int2Num(20)),
      JSNumber(Zero), JSNumber(Int2Num(-1)),
      JSNumber(NaN), JSNumber(PosInf),
      JSUndefined, JSString(<<"a", "b", "c">>) }

\* No call has been made.
IdleEngine ==
    /\ engineCall = [fn |-> "none", before |-> "none", args |-> <<>>]
    /\ engineRet = [threw |-> FALSE, value |-> [none |-> TRUE]]

\* The engine keeps no state: a run fixes the arguments a caller holds, and the
\* caller applies the engine's functions to them.  The NASA record passed to
\* comprehensiveImpactAssessment is null, or an object whose Diameter and
\* Velocity are unset, a text with a unit, a text of zero, a text that is no
\* number, a text whose number underflows when cubed or is Infinity, or a
\* number in place of a text; des and Full_Name are set or not.
InitEngine ==
    /\ engineCall \in
          [fn : {"none"}, before : {"none"}, args : (PhysicalArgs \X PhysicalArgs \X PhysicalArgs)
                                 \cup (RadiusArgs \X RadiusArgs \X RadiusArgs \X RadiusArgs)
                                 \cup (({[t |-> "null"]}
                                \cup [t : {"object"},
                                Diameter : {JSUndefined, JSString(<<"0", ".", "1", " ", "k", "m">>),
                                JSString(<<"0", " ", "k", "m">>), JSString(<<"a", "b", "c">>),
                                JSString(<<"1", "e", "-", "3", "0", " ", "k", "m">>),
                                JSString(InfinityWord), JSNumber(Dec(1, -1))},
                                Velocity : {JSUndefined, JSString(<<"2", "0", " ", "k", "m", "/", "s">>),
                                JSString(<<"0">>), JSString(InfinityWord)},
                                des : {JSUndefined, JSString(<<"4", "3", "3">>)},
                                Full_Name : {JSUndefined, JSString(<<"4", "3", "3", " ", "E", "r", "o", "s">>)}])
                                    \X RadiusArgs)]
    /\ engineRet = [threw |-> FALSE, value |-> [none |-> TRUE]]

CallCalculateImpactRadius ==
    /\ Len(engineCall.args) = 3
    /\ engineCall' = [engineCall EXCEPT !.fn = "calculateImpactRadius", !.before = engineCall.fn]
    /\ engineRet' = calculateImpactRadius(engineCall.args[1], engineCall.args[2],
                                          engineCall.args[3])
    /\ UNCHANGED <<calcVars, sceneVars, orbitCall, orbitRet>>

CallCalculateCraterDimensions ==
    /\ Len(engineCall.args) = 3
    /\ engineCall' = [engineCall EXCEPT !.fn = "calculateCraterDimensions", !.before = engineCall.fn]
    /\ engineRet' = calculateCraterDimensions(engineCall.args[1], engineCall.args[2],
                                              engineCall.args[3])
    /\ UNCHANGED <<calcVars, sceneVars, orbitCall, orbitRet>>

\* estimateCasualties, had it kept a running total between calls.
CallEstimateCasualtiesAccumulating ==
    /\ Len(engineCall.args) = 4
    /\ engineCall' = [engineCall EXCEPT !.fn = "estimateCasualties", !.before = engineCall.fn]
    /\ engineRet' =
          LET r == estimateCasualties(engineCall.args[1], engineCall.args[2],
                                      engineCall.args[3], engineCall.args[4])
          IN  IF r.threw \/ engineCall.fn # "estimateCasualties" THEN r
              ELSE [r EXCEPT !.value.total_casualties =
                                 FAdd(@, engineRet.value.total_casualties)]
    /\ UNCHANGED <<calcVars, sceneVars, orbitCall, orbitRet>>

CallEstimateCasualties ==
    /\ Len(engineCall.args) = 4
    /\ engineCall' = [engineCall EXCEPT !.fn = "estimateCasualties", !.before = engineCall.fn]
    /\ engineRet' = estimateCasualties(engineCall.args[1], engineCall.args[2],
                                       engineCall.args[3], engineCall.args[4])
    /\ UNCHANGED <<calcVars, sceneVars, orbitCall, orbitRet>>

CallComprehensiveImpactAssessment ==
    /\ Len(engineCall.args) = 2
    /\ engineCall' = [engineCall EXCEPT !.fn = "comprehensiveImpactAssessment",
                                        !.before = engineCall.fn]
    /\ engineRet' = comprehensiveImpactAssessment(engineCall.args[1], engineCall.args[2])
    /\ UNCHANGED <<calcVars, sceneVars, orbitCall, orbitRet>>

\* ------------------------------------------------------------------------
\* Events of the calculator page
\* ------------------------------------------------------------------------

\* What a user may type into each input field.
FieldValues ==
    [piEl  |-> {<<"1", "e", "-", "4">>, <<"1", "e", "-", "3", "0">>, <<"-", "1">>},
     tiEl  |-> {<<"1", "0">>, <<"1", "e", "3", "0">>, InfinityWord},
     EmtEl |-> {<<"5", "0">>, <<"0">>},
     dEl   |-> {<<"1", "4", "0">>},
     vEl   |-> {<<"2", "0">>},
     rhoEl |-> {<<"3", "0", "0", "0">>},
     fbEl  |-> {<<"1", "e", "-", "5">>, <<"1", "e", "-", "3">>, <<"1", "e", "-", "9">>,
                <<"0">>, InfinityWord}]

\* DOMContentLoaded runs syncModeUI. The page's markup is not part of the
\* sources: the fields start empty, in energy mode, auto-estimate unchecked,
\* and every other content is reached by the events below.
InitCalc ==
    /\ calc = recalc([piEl |-> <<>>, tiEl |-> <<>>, EmtEl |-> <<>>, dEl |-> <<>>,
                      vEl |-> <<>>, rhoEl |-> <<>>, fbEl |-> <<>>,
                      modeEnergy |-> TRUE, autoFb |-> FALSE])
    /\ blockHidden = [energy |-> FALSE, size |-> TRUE]

\* An input event on one of the seven text fields runs recalc.
InputField ==
    \E f \in DOMAIN FieldValues : \E v \in FieldValues[f] :
        /\ calc' = recalc([calc.fields EXCEPT ![f] = v])
        /\ UNCHANGED <<blockHidden, engineVars, sceneVars, orbitCall, orbitRet>>

\* An input event on the auto-estimate checkbox runs recalc.
InputAutoFb ==
    /\ calc' = recalc([calc.fields EXCEPT !.autoFb = ~calc.fields.autoFb])
    /\ UNCHANGED <<blockHidden, engineVars, sceneVars, orbitCall, orbitRet>>

\* A change event on a mode radio button runs syncModeUI.
syncModeUI ==
    \E usingEnergy \in BOOLEAN :
        /\ blockHidden' = [energy |-> ~usingEnergy, size |-> usingEnergy]
        /\ calc' = recalc([calc.fields EXCEPT !.modeEnergy = usingEnergy])
        /\ UNCHANGED <<engineVars, sceneVars, orbitCall, orbitRet>>

\* ------------------------------------------------------------------------
\* Events of the solar system scene
\* ------------------------------------------------------------------------

\* The most frames a run follows.
MaxFrames == 2

\* The most changes of the time speed a run follows.
MaxSpeedChanges == 2

\* The machine's clock when the page loads: 2026-11-04T09:30:15.250Z, in
\* seconds and milliseconds after J2000.
StartTime == [s |-> 847056615, ms |-> 250]

\* The seconds clock.getDelta() may return for a frame.
ElapsedTimes == {Dec(167, -4)}

\* The values a user may drag the slider to (the ends of its range).
SliderInputs == {<<"0">>, <<"1", "0", "0", "0">>}

\* What createSun, createPlanets and createNEOs put into the scene, before the
\* first updateScales.
CreatedObjects ==
    [key \in {"sun"} \cup PlanetKeys \cup DOMAIN neoData |->
        IF key = "sun" THEN [scale |-> Int2Num(1)]
        ELSE IF key = "earth"
        THEN [position |-> [x |-> Zero, y |-> Zero, z |-> Zero], scale |-> Int2Num(1),
              orbit |-> OrbitCurve(allBodies[key], distance("enhancedScale", allBodies[key].a)),
              rotationY |-> Zero, labelY |-> Zero, cloudsY |-> Zero]
        ELSE IF key \in PlanetKeys
        THEN [position |-> [x |-> Zero, y |-> Zero, z |-> Zero], scale |-> Int2Num(1),
              orbit |-> OrbitCurve(allBodies[key], distance("enhancedScale", allBodies[key].a)),
              rotationY |-> Zero, labelY |-> Zero]
        ELSE [position |-> [x |-> Zero, y |-> Zero, z |-> Zero], scale |-> Int2Num(1),
              orbit |-> [aX |-> Zero, xRadius |-> Zero, yRadius |-> Zero]]]

\* The scene's script before init() has run: its top-level declarations, no
\* body created and no control set up.
IdleScene ==
    /\ simulationTime = StartTime
    /\ slider = <<>>
    /\ timeSpeed = Int2Num(1)
    /\ isPaused = FALSE
    /\ scaleMode = "enhanced"
    /\ currentScale = "enhancedScale"
    /\ celestialObjects = <<>>
    /\ dom = <<>>
    /\ frames = 0
    /\ speedChanges = 0
    /\ lastEvent = [name |-> "load", elapsedTime |-> Zero]
    /\ neos = [stage |-> "idle", assigned |-> FALSE, assignments |-> 0, designations |-> 0,
               children |-> <<>>, faulted |-> FALSE]

\* The scene after init(): setupUI has set the slider and the speed, and the
\* first frame, whose clock.getDelta() is 0, has placed every body.  The
\* page's markup is not part of the sources: its buttons are taken to show
\* the state the script starts in (running, enhanced scale).
InitScene ==
    /\ simulationTime = StartTime
    /\ slider = NumberToString(InitialSliderValue)
    /\ timeSpeed = updateSpeed(NumberToString(InitialSliderValue))
    /\ isPaused = FALSE
    /\ scaleMode = "enhanced"
    /\ currentScale = "enhancedScale"
    /\ celestialObjects =
          updatePositions(FALSE, StartTime, updateSpeed(NumberToString(InitialSliderValue)),
                          "enhancedScale", updateScales(CreatedObjects, "enhancedScale"),
                          StartTime, Zero).celestialObjects
    /\ dom = [dateDisplay |-> StartTime,
              speedLabel |-> formatTimeSpeed(updateSpeed(NumberToString(InitialSliderValue))),
              playPauseBtn |-> <<"&#10074;&#10074;">>, activeScaleBtn |-> "scale-enhanced-btn"]
    /\ frames = 0
    /\ speedChanges = 0
    /\ lastEvent = [name |-> "init", elapsedTime |-> Zero]
    /\ neos = [stage |-> "idle", assigned |-> FALSE, assignments |-> 0, designations |-> 0,
               children |-> <<>>, faulted |-> FALSE]

\* What a frame leaves behind, r being the record updatePositions returns.
FrameResult(r, elapsedTime) ==
    /\ simulationTime' = r.simulationTime
    /\ celestialObjects' = r.celestialObjects
    /\ dom' = [dom EXCEPT !.dateDisplay = r.dateDisplay]
    /\ frames' = frames + 1
    /\ lastEvent' = [name |-> "frame", elapsedTime |-> elapsedTime]
    /\ UNCHANGED <<timeSpeed, isPaused, slider, scaleMode, currentScale, speedChanges, neos>>
    /\ UNCHANGED <<engineVars, calcVars, orbitCall, orbitRet>>

\* animate: one frame, elapsedTime seconds after the one before.
Animate ==
    /\ frames < MaxFrames
    /\ \E elapsedTime \in ElapsedTimes :
          FrameResult(updatePositions(isPaused, simulationTime, timeSpeed, currentScale,
                                      celestialObjects, dom.dateDisplay, elapsedTime),
                      elapsedTime)

\* The slider takes the value and its input listener runs updateSpeed.
SetSlider(value, event) ==
    /\ speedChanges < MaxSpeedChanges
    /\ slider' = value
    /\ timeSpeed' = updateSpeed(value)
    /\ dom' = [dom EXCEPT !.speedLabel = formatTimeSpeed(updateSpeed(value))]
    /\ speedChanges' = speedChanges + 1
    /\ lastEvent' = [name |-> event, elapsedTime |-> Zero]
    /\ UNCHANGED <<simulationTime, isPaused, scaleMode, currentScale, celestialObjects, frames, neos>>
    /\ UNCHANGED <<engineVars, calcVars, orbitCall, orbitRet>>

\* An input event of the slider: the user drags it.
InputSlider == \E value \in SliderInputs : SetSlider(value, "input")

\* A click on the time-forward button.
ClickTimeForward == SetSlider(NumberToString(ForwardValue(slider)), "click")

\* A click on the time-backward button.
ClickTimeBackward == SetSlider(NumberToString(BackwardValue(slider)), "click")

\* A click on the play-pause button.
ClickPlayPause ==
    /\ isPaused' = ~isPaused
    /\ dom' = [dom EXCEPT !.playPauseBtn =
                              IF ~isPaused THEN <<"&#9658;">> ELSE <<"&#10074;&#10074;">>]
    /\ lastEvent' = [name |-> "click", elapsedTime |-> Zero]
    /\ UNCHANGED <<simulationTime, timeSpeed, slider, scaleMode, currentScale,
                   celestialObjects, frames, speedChanges, neos>>
    /\ UNCHANGED <<engineVars, calcVars, orbitCall, orbitRet>>

\* A click on the enhanced scale button.
ClickScaleEnhanced ==
    /\ scaleMode' = "enhanced"
    /\ currentScale' = "enhancedScale"
    /\ celestialObjects' = updateScales(celestialObjects, "enhancedScale")
    /\ dom' = [dom EXCEPT !.activeScaleBtn = "scale-enhanced-btn"]
    /\ lastEvent' = [name |-> "scale", elapsedTime |-> Zero, from |-> currentScale]
    /\ UNCHANGED <<simulationTime, timeSpeed, isPaused, slider, frames, speedChanges, neos>>
    /\ UNCHANGED <<engineVars, calcVars, orbitCall, orbitRet>>

\* A click on the true scale button, had it left scaleMode as it was.
ClickScaleTrueStrategyOnly ==
    /\ currentScale' = "trueScale"
    /\ celestialObjects' = updateScales(celestialObjects, "trueScale")
    /\ dom' = [dom EXCEPT !.activeScaleBtn = "scale-true-btn"]
    /\ lastEvent' = [name |-> "scale", elapsedTime |-> Zero, from |-> currentScale]
    /\ UNCHANGED <<simulationTime, timeSpeed, isPaused, slider, scaleMode, frames, speedChanges, neos>>
    /\ UNCHANGED <<engineVars, calcVars, orbitCall, orbitRet>>

\* A click on the true scale button.
ClickScaleTrue ==
    /\ scaleMode' = "true"
    /\ currentScale' = "trueScale"
    /\ celestialObjects' = updateScales(celestialObjects, "trueScale")
    /\ dom' = [dom EXCEPT !.activeScaleBtn = "scale-true-btn"]
    /\ lastEvent' = [name |-> "scale", elapsedTime |-> Zero, from |-> currentScale]
    /\ UNCHANGED <<simulationTime, timeSpeed, isPaused, slider, frames, speedChanges, neos>>
    /\ UNCHANGED <<engineVars, calcVars, orbitCall, orbitRet>>

\* ------------------------------------------------------------------------
\* Calls to the functions of the propagator
\* ------------------------------------------------------------------------

\* The loop of updatePositions, had a position that is not a number ended
\* it as an exception would.
RECURSIVE TickLoopAborting(_, _, _, _, _, _)
TickLoopAborting(order, i, data, days, strategy, positions) ==
    IF i > Len(order) THEN positions
    ELSE IF \E c \in {"x", "y", "z"} :
               ~isFinite(BodyPosition(data[order[i]], days, strategy)[c])
    THEN positions
    ELSE TickLoopAborting(order, i + 1, data, days, strategy,
                          [positions EXCEPT
                             ![order[i]] = BodyPosition(data[order[i]], days, strategy)])

\* The loop of updatePositions over the keys of allBodies from the i-th of
\* order on: each body is given the position computed from its own data;
\* no step tests its result or throws.
RECURSIVE TickLoop(_, _, _, _, _, _)
TickLoop(order, i, data, days, strategy, positions) ==
    IF i > Len(order) THEN positions
    ELSE TickLoop(order, i + 1, data, days, strategy,
                  [positions EXCEPT
                     ![order[i]] = BodyPosition(data[order[i]], days, strategy)])

AnomalySteps == 63

EccentricitySteps == 18

\* No function of the propagator is being called.
IdleOrbit ==
    /\ orbitCall = [fn |-> "none"]
    /\ orbitRet = [done |-> FALSE]

\* A run fixes one call and its arguments; the scene, the engine and the
\* calculator stay as they are before anything has run.  solveKepler takes a mean anomaly
\* (steps of 0.1 rad) and an eccentricity (steps of 0.05, and three just
\* below 0.95), in units of 10^-8.  The mean anomaly of a near-Earth object
\* takes the M0 and varpi of a row of neoData in hundredths of a degree, the
\* orbital period in days and the days since J2000.  updatePositions takes
\* the data of a body (of the scene, or one whose orbitalPeriod is 0 or
\* unset, or one with no elements at all, as createAsteroidOrbit builds it),
\* the days since J2000 and the strategy.  A tick takes the order in which
\* the loop of updatePositions visits the bodies, the body whose data are
\* ill-formed and how (no orbitalPeriod, orbitalPeriod 0, an eccentricity of
\* 1.2, no elements at all), the days since J2000 and the strategy.
InitOrbit ==
    /\ IdleScene /\ IdleEngine /\ InitCalc
    /\ orbitCall \in
          [fn : {"solveKepler"},
           M : {k * 10000000 : k \in -AnomalySteps..AnomalySteps},
           e : {k * 5000000 : k \in 0..EccentricitySteps}
                 \cup {94000000, 94900000, 94999999}]
          \cup [fn : {"meanAnomaly"}, M0 : {0, 22767, 35999, 244426767, -3000},
                 varpi : {0, 7560, 33604}, orbitalPeriod : {365, 1216},
                 days : {0, 100, 9804}]
          \cup [fn : {"updatePositions"},
                 data : {allBodies[key] : key \in DOMAIN allBodies}
                          \cup {[allBodies[key] EXCEPT !.orbitalPeriod = p] :
                                   key \in DOMAIN allBodies, p \in {NaN, Zero}}
                          \cup {[f \in DOMAIN allBodies["neo_0"] |->
                                    IF f = "enhancedRadius" THEN Dec(8, -1) ELSE NaN]},
                 days : {Zero, daysSinceJ2000(StartTime)},
                 strategy : {"enhancedScale", "trueScale"}]
          \cup [fn : {"tick"},
                 order : {o \in [1..Cardinality(DOMAIN allBodies) -> DOMAIN allBodies] :
                            \A i, j \in DOMAIN o : o[i] = o[j] => i = j},
                 bad : DOMAIN allBodies,
                 defect : {"noPeriod", "zeroPeriod", "eccentricity", "noElements"},
                 days : {daysSinceJ2000(StartTime)},
                 strategy : {"enhancedScale", "trueScale"}]
    /\ orbitRet = [done |-> FALSE]

\* solveKepler(M, e)
CallSolveKepler ==
    /\ orbitCall.fn = "solveKepler"
    /\ ~orbitRet.done
    /\ orbitRet' = [done |-> TRUE, E |-> solveKeplerFixed(orbitCall.M, orbitCall.e)]
    /\ UNCHANGED <<orbitCall, engineVars, calcVars, sceneVars>>

\* The mean anomaly of a near-Earth object, had createNEOs kept M0 % 360 as
\* its mean longitude.
CallMeanAnomalyNoVarpi ==
    /\ orbitCall.fn = "meanAnomaly"
    /\ ~orbitRet.done
    /\ LET L == Sgn(orbitCall.M0) * (Abs(orbitCall.M0) % 36000)
           m == L - orbitCall.varpi + (36000 * orbitCall.days) \div orbitCall.orbitalPeriod
       IN  orbitRet' = [done |-> TRUE, L |-> L, M |-> Sgn(m) * (Abs(m) % 36000)]
    /\ UNCHANGED <<orbitCall, engineVars, calcVars, sceneVars>>

\* createNEOs gives the row the mean longitude L = (M0 + varpi) % 360, and
\* updatePositions computes its mean anomaly M = (L - varpi + n * days) % 360
\* with n = 360 / orbitalPeriod; a remainder has the sign of its dividend.
\* Angles are in hundredths of a degree.
CallMeanAnomaly ==
    /\ orbitCall.fn = "meanAnomaly"
    /\ ~orbitRet.done
    /\ LET L == Sgn(orbitCall.M0 + orbitCall.varpi)
                  * (Abs(orbitCall.M0 + orbitCall.varpi) % 36000)
           m == L - orbitCall.varpi + (36000 * orbitCall.days) \div orbitCall.orbitalPeriod
       IN  orbitRet' = [done |-> TRUE, L |-> L, M |-> Sgn(m) * (Abs(m) % 36000)]
    /\ UNCHANGED <<orbitCall, engineVars, calcVars, sceneVars>>

\* The body of the loop of updatePositions, for one body: the data are not
\* tested, nothing is logged or thrown, and the position computed is assigned
\* to the group of the body.
CallUpdatePositions ==
    /\ orbitCall.fn = "updatePositions"
    /\ ~orbitRet.done
    /\ orbitRet' = [done |-> TRUE, reported |-> FALSE, assigned |-> TRUE,
                    position |-> BodyPosition(orbitCall.data, orbitCall.days,
                                              orbitCall.strategy)]
    /\ UNCHANGED <<orbitCall, engineVars, calcVars, sceneVars>>

\* One unpaused frame of updatePositions over bodies of which one has
\* ill-formed data; every group starts at the origin, where it is created.
CallTick ==
    /\ orbitCall.fn = "tick"
    /\ ~orbitRet.done
    /\ orbitRet' =
          [done |-> TRUE,
           positions |->
               TickLoop(orbitCall.order, 1,
                        [key \in DOMAIN allBodies |->
                            IF key # orbitCall.bad THEN allBodies[key]
                            ELSE IF orbitCall.defect = "noPeriod"
                            THEN [allBodies[key] EXCEPT !.orbitalPeriod = NaN]
                            ELSE IF orbitCall.defect = "zeroPeriod"
                            THEN [allBodies[key] EXCEPT !.orbitalPeriod = Zero]
                            ELSE IF orbitCall.defect = "eccentricity"
                            THEN [allBodies[key] EXCEPT !.e = Dec(12, -1)]
                            ELSE [f \in DOMAIN allBodies[key] |-> NaN]],
                        orbitCall.days, orbitCall.strategy,
                        [key \in DOMAIN allBodies |-> [x |-> Zero, y |-> Zero, z |-> Zero]])]
    /\ UNCHANGED <<orbitCall, engineVars, calcVars, sceneVars>>

\* ------------------------------------------------------------------------
\* Events of the scene that loads its near-Earth objects from the server
\* ------------------------------------------------------------------------

\* The most designations the server lists.
MaxDesignations == 2

\* createFallbackNEOs: const neoCount.
neoCount == 10

\* The loop of updatePositions over the planets: the position by the
\* argument of perihelion, the spin and the height of the label.
PlacePlanets(objects, days, strategy, elapsedTime, speed) ==
    [key \in DOMAIN objects |->
        IF key \notin PlanetKeys THEN objects[key]
        ELSE SpinPlanet([objects[key] EXCEPT
                            !.position = PositionByPerihelionArgument(allBodies[key], days,
                                                                      strategy)],
                        key,
                        FMul(FMul(FMul(elapsedTime,
                                       FDiv(speed, FMul(allBodies[key].rotationPeriod,
                                                        Int2Num(3600)))),
                                  Int2Num(2)), PI),
                        size(strategy, allBodies[key].diameter))]

\* The scene after init(): the Sun and the planets are created and scaled
\* (updateScales finds no celestialObjects.neos), createNEOs has run up to
\* its first await, setupUI has set the slider and the speed, and the first
\* frame, whose clock.getDelta() is 0, has placed the planets.  The engine,
\* the calculator and the propagator's single calls stay as they are before
\* anything has run.
InitFetch ==
    /\ IdleOrbit /\ IdleEngine /\ InitCalc
    /\ simulationTime = StartTime
    /\ slider = NumberToString(InitialSliderValue)
    /\ timeSpeed = updateSpeed(NumberToString(InitialSliderValue))
    /\ isPaused = FALSE
    /\ scaleMode = "enhanced"
    /\ currentScale = "enhancedScale"
    /\ celestialObjects =
          PlacePlanets(updateScales([key \in {"sun"} \cup PlanetKeys |-> CreatedObjects[key]],
                                    "enhancedScale"),
                       daysSinceJ2000(StartTime), "enhancedScale", Zero,
                       updateSpeed(NumberToString(InitialSliderValue)))
    /\ dom = [dateDisplay |-> StartTime,
              speedLabel |-> formatTimeSpeed(updateSpeed(NumberToString(InitialSliderValue))),
              playPauseBtn |-> <<"&#10074;&#10074;">>, activeScaleBtn |-> "scale-enhanced-btn"]
    /\ frames = 0
    /\ speedChanges = 0
    /\ lastEvent = [name |-> "init", elapsedTime |-> Zero]
    /\ neos = [stage |-> "fetchData", assigned |-> FALSE, assignments |-> 0,
               designations |-> 0, children |-> <<>>, faulted |-> FALSE]

\* createNEOs resumes after one of its four awaits (the fetch of the data,
\* its json, the fetch of the orbital parameters, its json).  A promise that
\* rejects, a response that is not ok and an exception thrown while the
\* groups are made all end in the catch block, which adds the fallback
\* meshes to whatever the group holds; an empty list of designations assigns
\* the empty group and returns.  made is the number of designations whose
\* group createAsteroidOrbit has added when the loop ends or throws.  A
\* group made by createAsteroidOrbit holds the asteroid, whose userData has
\* an enhancedRadius and no orbital elements, and the orbit line; a fallback
\* mesh has the elements in its own userData and no children.  Elements
\* that are not set read as undefined, NaN in arithmetic.
ResumeCreateNEOs ==
    /\ neos.stage \in {"fetchData", "jsonData", "fetchOrbits", "jsonOrbits"}
    /\ \E outcome \in {"resolved", "rejected"}, n \in 0..MaxDesignations,
          made \in 0..MaxDesignations, thrown \in BOOLEAN :
          LET Unset == [f \in DOMAIN allBodies["neo_0"] |-> NaN]
              AsteroidGroup(d) ==
                  [name |-> <<"designation", d>>,
                   position |-> [x |-> Zero, y |-> Zero, z |-> Zero],
                   placedBy |-> <<>>, userData |-> Unset, scale |-> Int2Num(1),
                   children |-> <<[userData |-> [Unset EXCEPT !.enhancedRadius = Dec(8, -1)],
                                   scale |-> Int2Num(1)],
                                  [userData |-> Unset, scale |-> Int2Num(1)]>>]
              Fallback ==
                  [i \in 1..neoCount |->
                      [name |-> <<"fallback", i>>,
                       position |-> [x |-> Zero, y |-> Zero, z |-> Zero],
                       placedBy |-> <<>>, userData |-> allBodies["neo_0"],
                       scale |-> Int2Num(1), children |-> <<>>]]
              Assigned(children) ==
                  [neos EXCEPT !.stage = "settled", !.assigned = TRUE,
                               !.assignments = @ + 1, !.children = children]
          IN  /\ made <= neos.designations
              /\ neos' =
                    IF outcome = "rejected" THEN Assigned(Fallback)
                    ELSE IF neos.stage = "fetchData" THEN [neos EXCEPT !.stage = "jsonData"]
                    ELSE IF neos.stage = "jsonData"
                    THEN IF n = 0 THEN Assigned(<<>>)
                         ELSE [neos EXCEPT !.stage = "fetchOrbits", !.designations = n]
                    ELSE IF neos.stage = "fetchOrbits"
                    THEN [neos EXCEPT !.stage = "jsonOrbits"]
                    ELSE IF thrown
                    THEN Assigned([d \in 1..made |-> AsteroidGroup(d)] \o Fallback)
                    ELSE Assigned([d \in 1..made |-> AsteroidGroup(d)])
    /\ lastEvent' = [name |-> "load", elapsedTime |-> Zero]
    /\ UNCHANGED <<simulationTime, timeSpeed, isPaused, slider, scaleMode, currentScale,
                   celestialObjects, dom, frames, speedChanges>>
    /\ UNCHANGED <<engineVars, calcVars, orbitCall, orbitRet>>

\* animate, had updatePositions collected the data of the near-Earth objects
\* without testing celestialObjects.neos first: while it is undefined the
\* frame ends in a TypeError, after the clock and the date display are set.
FetchAnimateUnguarded ==
    /\ frames < MaxFrames
    /\ \E elapsedTime \in ElapsedTimes :
          LET time == NewDate(simulationTime,
                              FMul(FMul(elapsedTime, timeSpeed), Int2Num(1000)))
              Marked(c) == ~Falsy(c.userData.enhancedRadius)
              WithAsteroid(g) == \E j \in 1..Len(g.children) : Marked(g.children[j])
              Asteroid(g) == g.children[CHOOSE j \in 1..Len(g.children) :
                                           /\ Marked(g.children[j])
                                           /\ \A k \in 1..(j - 1) : ~Marked(g.children[k])]
              kept == SelectSeq(neos.children, WithAsteroid)
          IN  /\ lastEvent' = [name |-> "frame", elapsedTime |-> elapsedTime]
              /\ frames' = frames + 1
              /\ IF isPaused
                 THEN UNCHANGED <<simulationTime, dom, celestialObjects, neos>>
                 ELSE /\ simulationTime' = time
                      /\ dom' = [dom EXCEPT !.dateDisplay = time]
                      /\ IF ~neos.assigned
                         THEN /\ neos' = [neos EXCEPT !.faulted = TRUE]
                              /\ UNCHANGED celestialObjects
                         ELSE /\ celestialObjects' =
                                    PlacePlanets(celestialObjects, daysSinceJ2000(time),
                                                 currentScale, elapsedTime, timeSpeed)
                              /\ neos' =
                                    [neos EXCEPT !.children =
                                        [i \in 1..Len(neos.children) |->
                                            IF i > Len(kept) THEN neos.children[i]
                                            ELSE [neos.children[i] EXCEPT
                                                     !.position =
                                                         PositionByPerihelionArgument(
                                                             Asteroid(kept[i]).userData,
                                                             daysSinceJ2000(time), currentScale),
                                                     !.placedBy = kept[i].name]]]
    /\ UNCHANGED <<timeSpeed, isPaused, slider, scaleMode, currentScale, speedChanges>>
    /\ UNCHANGED <<engineVars, calcVars, orbitCall, orbitRet>>

\* animate: one frame, elapsedTime seconds after the one before.
\* updatePositions collects the userData of the near-Earth objects only if
\* celestialObjects.neos and its group are set: of the children of the group
\* that have children of their own, the first child with an enhancedRadius.
\* The i-th of the data collected is neo_i, and its position goes to the
\* i-th child of the group.  A key of a near-Earth object exists only if
\* data were collected.
FetchAnimate ==
    /\ frames < MaxFrames
    /\ \E elapsedTime \in ElapsedTimes :
          LET time == NewDate(simulationTime,
                              FMul(FMul(elapsedTime, timeSpeed), Int2Num(1000)))
              Marked(c) == ~Falsy(c.userData.enhancedRadius)
              WithAsteroid(g) == \E j \in 1..Len(g.children) : Marked(g.children[j])
              Asteroid(g) == g.children[CHOOSE j \in 1..Len(g.children) :
                                           /\ Marked(g.children[j])
                                           /\ \A k \in 1..(j - 1) : ~Marked(g.children[k])]
              kept == IF neos.assigned THEN SelectSeq(neos.children, WithAsteroid) ELSE <<>>
          IN  /\ lastEvent' = [name |-> "frame", elapsedTime |-> elapsedTime]
              /\ frames' = frames + 1
              /\ IF isPaused
                 THEN UNCHANGED <<simulationTime, dom, celestialObjects, neos>>
                 ELSE /\ simulationTime' = time
                      /\ dom' = [dom EXCEPT !.dateDisplay = time]
                      /\ celestialObjects' =
                            PlacePlanets(celestialObjects, daysSinceJ2000(time),
                                         currentScale, elapsedTime, timeSpeed)
                      /\ neos' =
                            [neos EXCEPT
                                !.faulted = @ \/ (Len(kept) > 0 /\ ~neos.assigned),
                                !.children =
                                    [i \in 1..Len(neos.children) |->
                                        IF i > Len(kept) THEN neos.children[i]
                                        ELSE [neos.children[i] EXCEPT
                                                 !.position =
                                                     PositionByPerihelionArgument(
                                                         Asteroid(kept[i]).userData,
                                                         daysSinceJ2000(time), currentScale),
                                                 !.placedBy = kept[i].name]]]
    /\ UNCHANGED <<timeSpeed, isPaused, slider, scaleMode, currentScale, speedChanges>>
    /\ UNCHANGED <<engineVars, calcVars, orbitCall, orbitRet>>

\* A click on one of the two scale buttons: the mode and the strategy are
\* set and updateScales runs.  Its part for the near-Earth objects runs only
\* if celestialObjects.neos and its group are set, and sets the scale of the
\* asteroid of every child of the group that has children.
FetchClickScale ==
    \E mode \in {"enhanced", "true"} :
        LET strategy == IF mode = "enhanced" THEN "enhancedScale" ELSE "trueScale"
            Marked(c) == ~Falsy(c.userData.enhancedRadius)
            AsteroidAt(g) == CHOOSE j \in 1..Len(g.children) :
                                /\ Marked(g.children[j])
                                /\ \A k \in 1..(j - 1) : ~Marked(g.children[k])
            Scaled(g) ==
                IF ~(\E j \in 1..Len(g.children) : Marked(g.children[j])) THEN g
                ELSE [g EXCEPT !.children[AsteroidAt(g)].scale =
                         IF mode = "enhanced" THEN Int2Num(1)
                         ELSE FDiv(FDiv(size("trueScale", Int2Num(1)), Int2Num(2)),
                                   g.children[AsteroidAt(g)].userData.enhancedRadius)]
        IN  /\ scaleMode' = mode
            /\ currentScale' = strategy
            /\ celestialObjects' = updateScales(celestialObjects, strategy)
            /\ neos' = IF neos.assigned
                       THEN [neos EXCEPT !.children =
                                [i \in 1..Len(neos.children) |-> Scaled(neos.children[i])]]
                       ELSE neos
            /\ dom' = [dom EXCEPT !.activeScaleBtn =
                          IF mode = "enhanced" THEN "scale-enhanced-btn" ELSE "scale-true-btn"]
            /\ lastEvent' = [name |-> "scale", elapsedTime |-> Zero, from |-> currentScale]
            /\ UNCHANGED <<simulationTime, timeSpeed, isPaused, slider, frames, speedChanges>>
            /\ UNCHANGED <<engineVars, calcVars, orbitCall, orbitRet>>

\* ------------------------------------------------------------------------
\* Specifications
\* ------------------------------------------------------------------------

NextImpact ==
    \/ CallCalculateImpactRadius
    \/ CallCalculateCraterDimensions
    \/ CallEstimateCasualties
    \/ CallComprehensiveImpactAssessment

InitImpact == IdleScene /\ IdleOrbit /\ InitCalc /\ InitEngine

SpecImpact == InitImpact /\ [][NextImpact]_vars

NextPalermo ==
    \/ InputField
    \/ InputAutoFb
    \/ syncModeUI

InitPalermo == IdleScene /\ IdleOrbit /\ IdleEngine /\ InitCalc

SpecPalermo == InitPalermo /\ [][NextPalermo]_vars

Next ==
    \/ Animate
    \/ InputSlider
    \/ ClickTimeForward
    \/ ClickTimeBackward
    \/ ClickPlayPause
    \/ ClickScaleEnhanced
    \/ ClickScaleTrue

Init == InitScene /\ IdleOrbit /\ IdleEngine /\ InitCalc

Spec == Init /\ [][Next]_vars

NextFetch ==
    \/ ResumeCreateNEOs
    \/ FetchAnimate
    \/ FetchClickScale
    \/ ClickPlayPause

SpecFetch == InitFetch /\ [][NextFetch]_vars

NextOrbit ==
    \/ CallSolveKepler
    \/ CallMeanAnomaly
    \/ CallUpdatePositions
    \/ CallTick

SpecOrbit == InitOrbit /\ [][NextOrbit]_vars

\* ------------------------------------------------------------------------
\* Properties of the impact physics engine
\* ------------------------------------------------------------------------

Returned(fn) == engineCall.fn = fn /\ ~engineRet.threw

\* C1: for every input that calculateImpactRadius accepts, the returned radii
\* satisfy severe_radius_km <= moderate_radius_km <= light_radius_km.
C1_RadiiNested ==
    Returned("calculateImpactRadius") =>
        /\ FLe(engineRet.value.severe_radius_km, engineRet.value.moderate_radius_km)
        /\ FLe(engineRet.value.moderate_radius_km, engineRet.value.light_radius_km)

\* C2: calculateImpactRadius and calculateCraterDimensions throw, returning no
\* result record, whenever any one of their three arguments is non-numeric (its
\* numeric value is NaN) or not positive, whichever argument it is.
C2_BadInputThrows ==
    (/\ engineCall.fn \in {"calculateImpactRadius", "calculateCraterDimensions"}
     /\ \E i \in 1..3 : ~FGt(Number(engineCall.args[i]), Zero))
        => engineRet.threw

\* A call was rejected for its third argument alone, a call for a zero first
\* argument alone, for each of the two functions.
C2_Witness ==
    /\ engineCall.fn \in {"calculateImpactRadius", "calculateCraterDimensions"}
    /\ engineRet.threw
    /\ FGt(Number(engineCall.args[1]), Zero)
    /\ FGt(Number(engineCall.args[2]), Zero)
    /\ IsZero(Number(engineCall.args[3]))

\* C3: a call in which any argument is NaN or Infinity is rejected, and no
\* returned result holds a NaN or an Infinity in its energy or radii.
C3_NonFiniteRejected ==
    /\ (/\ engineCall.fn \in {"calculateImpactRadius", "calculateCraterDimensions"}
        /\ \E i \in 1..3 : ~isFinite(Number(engineCall.args[i])))
           => engineRet.threw
    /\ Returned("calculateImpactRadius") =>
           /\ isFinite(engineRet.value.kinetic_energy_joules)
           /\ isFinite(engineRet.value.severe_radius_km)
           /\ isFinite(engineRet.value.moderate_radius_km)
           /\ isFinite(engineRet.value.light_radius_km)
    /\ Returned("calculateCraterDimensions") =>
           isFinite(engineRet.value.crater_diameter_m)
    /\ Returned("estimateCasualties") =>
           /\ (\A i \in 1..3 : isFinite(Number(engineCall.args[i])))
           /\ isFinite(engineRet.value.total_casualties)

\* C4: the classification is the threshold ladder over the returned radii:
\* Severe iff severe_radius_km > 5, otherwise Moderate iff moderate_radius_km > 2,
\* otherwise Light; a radius equal to its threshold falls to the lower class.
C4_ClassificationLadder ==
    Returned("calculateImpactRadius") =>
        LET r == engineRet.value
            severe   == FGt(r.severe_radius_km, Int2Num(5))
            moderate == FGt(r.moderate_radius_km, Int2Num(2))
        IN  /\ (r.damage_classification = "Severe") <=> severe
            /\ (r.damage_classification = "Moderate") <=> (~severe /\ moderate)
            /\ (r.damage_classification = "Light") <=> (~severe /\ ~moderate)

\* A moderate radius of exactly 2 km was classified Light.
C4_Witness ==
    /\ Returned("calculateImpactRadius")
    /\ engineRet.value.moderate_radius_km = Int2Num(2)
    /\ engineRet.value.damage_classification = "Light"

\* ------------------------------------------------------------------------
\* Properties of the calculator page
\* ------------------------------------------------------------------------

\* C5: for every Palermo value PS that recalc computes, the interpretation
\* shown is 'Above background risk' iff PS > 0, 'Comparable to background' iff
\* -2 < PS <= 0 and 'Well below background' iff PS <= -2; with Pi = 1e-4,
\* Ti = 10 and fB = 1e-5, PS is 0 and the interpretation is 'Comparable to
\* background'.
C5_InterpretationBands ==
    /\ ~isNaN(calc.PS) =>
          /\ (calc.psInterpEl = <<"Above background risk">>) <=> FGt(calc.PS, Zero)
          /\ (calc.psInterpEl = <<"Comparable to background">>)
                <=> (FGt(calc.PS, Int2Num(-2)) /\ FLe(calc.PS, Zero))
          /\ (calc.psInterpEl = <<"Well below background">>)
                <=> FLe(calc.PS, Int2Num(-2))
    /\ (/\ calc.fields.piEl = <<"1", "e", "-", "4">>
        /\ calc.fields.tiEl = <<"1", "0">>
        /\ calc.fbVal = Dec(1, -5))
          => (calc.PS = Zero /\ calc.psInterpEl = <<"Comparable to background">>)

\* The test recalc applies to Pi, Ti and the fB in use.
C6_InputsValid ==
    /\ isFinite(parseFloat(calc.fields.piEl)) /\ FGt(parseFloat(calc.fields.piEl), Zero)
    /\ isFinite(parseFloat(calc.fields.tiEl)) /\ FGt(parseFloat(calc.fields.tiEl), Zero)
    /\ isFinite(calc.fbVal) /\ FGt(calc.fbVal, Zero)

\* C6: recalc computes the Palermo value as log10((Pi / Ti) / fB) if and only
\* if Pi, Ti and the fB in use are all finite and strictly positive; otherwise
\* PS is no number and both the PS field and the interpretation field show the
\* placeholder; no shown text ever reads NaN or Infinity.
C6_PalermoGuard ==
    /\ C6_InputsValid <=> ~isNaN(calc.PS)
    /\ C6_InputsValid =>
          calc.PS = FLog10(FDiv(FDiv(parseFloat(calc.fields.piEl),
                                     parseFloat(calc.fields.tiEl)), calc.fbVal))
    /\ ~C6_InputsValid =>
          (calc.psEl = Placeholder /\ calc.psInterpEl = Placeholder)
    /\ \A t \in {calc.psEl, calc.psInterpEl, calc.energyMtEl, calc.energyJEl,
                 calc.fbEchoEl} :
          \A i \in 1..Len(t) : t[i] \notin {"N", "I"}

\* Pi is valid and Ti is Infinity: the two fields show the placeholder.
C6_Witness ==
    /\ calc.fields.piEl = <<"1", "e", "-", "4">>
    /\ calc.fields.tiEl = InfinityWord
    /\ isFinite(calc.fbVal) /\ FGt(calc.fbVal, Zero)
    /\ calc.psEl = Placeholder

\* The example of C5 has been computed.
C5_ExampleReached ==
    /\ calc.fields.piEl = <<"1", "e", "-", "4">>
    /\ calc.fields.tiEl = <<"1", "0">>
    /\ calc.fbVal = Dec(1, -5)
    /\ calc.PS = Zero
    /\ calc.psEl = <<"0", ".", "0", "0">>

\* ------------------------------------------------------------------------
\* Properties of the solar system scene
\* ------------------------------------------------------------------------

\* The position of every body, and the spin angle of every planet.
Positions(objects) == [key \in DOMAIN allBodies |-> objects[key].position]

Spins(objects) == [key \in PlanetKeys |-> objects[key].rotationY]

\* The milliseconds from the instant t0 to the later instant t1, as a number.
Milliseconds(t0, t1) ==
    IF t1.s - t0.s < 1000000
    THEN Int2Num((t1.s - t0.s) * 1000 + (t1.ms - t0.ms))
    ELSE Fin(1, t1.s - t0.s, 3)

\* C7: while the simulation is paused a frame leaves the simulated time, the
\* position of every body and the spin angle of every planet unchanged; a
\* click on play-pause leaves the simulated time unchanged, and the frame
\* after a resume advances the clock from that frozen value.
C7_PausedFreezes ==
    [][/\ (isPaused /\ frames' = frames + 1) =>
              /\ simulationTime' = simulationTime
              /\ Positions(celestialObjects') = Positions(celestialObjects)
              /\ Spins(celestialObjects') = Spins(celestialObjects)
       /\ (isPaused' # isPaused) =>
              /\ simulationTime' = simulationTime
              /\ Positions(celestialObjects') = Positions(celestialObjects)
       /\ (~isPaused /\ frames' = frames + 1) =>
              simulationTime' =
                  NewDate(simulationTime,
                          FMul(FMul(lastEvent'.elapsedTime, timeSpeed), Int2Num(1000)))]_vars

\* A frame has advanced the clock, and then a frame has run while paused.
C7_Witness ==
    /\ isPaused
    /\ lastEvent.name = "frame"
    /\ frames = 2
    /\ simulationTime # StartTime

\* C8: the simulated time never goes back, whatever the event, and every
\* frame that runs while not paused advances it by exactly elapsedTime *
\* timeSpeed seconds.
C8_ClockAdvance ==
    [][/\ \/ simulationTime'.s > simulationTime.s
          \/ simulationTime'.s = simulationTime.s /\ simulationTime'.ms >= simulationTime.ms
       /\ (~isPaused /\ frames' = frames + 1) =>
              Milliseconds(simulationTime, simulationTime')
                  = FMul(FMul(lastEvent'.elapsedTime, timeSpeed), Int2Num(1000))]_vars

\* C9: the slider stays within [0, 1000]; the time speed is the one
\* updateSpeed computes for the slider, finite, at least 1 and at most the
\* speed updateSpeed computes at the top of the slider.
C9_SpeedRange ==
    /\ isFinite(parseInt(slider))
    /\ FGe(parseInt(slider), Zero)
    /\ FLe(parseInt(slider), Int2Num(1000))
    /\ timeSpeed = updateSpeed(slider)
    /\ isFinite(timeSpeed)
    /\ FGe(timeSpeed, Int2Num(1))
    /\ FLe(timeSpeed, updateSpeed(<<"1", "0", "0", "0">>))

\* C9 as stated: the time speed stays within [1, 86400 * 365 * 20].
C9_SpecRange ==
    /\ isFinite(parseInt(slider))
    /\ FGe(parseInt(slider), Zero)
    /\ FLe(parseInt(slider), Int2Num(1000))
    /\ isFinite(timeSpeed)
    /\ FGe(timeSpeed, Int2Num(1))
    /\ FLe(timeSpeed, FMul(FMul(Int2Num(86400), Int2Num(365)), Int2Num(20)))

\* The slider has been moved to the top of its range.
C9_Witness ==
    /\ speedChanges > 0
    /\ slider = <<"1", "0", "0", "0">>
    /\ timeSpeed = updateSpeed(<<"1", "0", "0", "0">>)

\* C10: an event that sets the time speed leaves the simulated time and the
\* position of every body unchanged, and after any frame the position of
\* every body is the one that its elements, the simulated time and the scale
\* strategy in use determine.
C10_PositionFromTime ==
    [][/\ (speedChanges' = speedChanges + 1) =>
              /\ simulationTime' = simulationTime
              /\ Positions(celestialObjects') = Positions(celestialObjects)
       /\ (frames' = frames + 1) =>
              \A key \in DOMAIN allBodies :
                  celestialObjects'[key].position
                      = BodyPosition(allBodies[key], daysSinceJ2000(simulationTime'),
                                     currentScale')]_vars

\* A frame has run while paused, after a click on a scale button changed the
\* strategy in use.
C10_Witness ==
    /\ isPaused
    /\ lastEvent.name = "frame"
    /\ currentScale = "trueScale"
    /\ \E key \in DOMAIN allBodies :
          celestialObjects[key].position
              # BodyPosition(allBodies[key], daysSinceJ2000(simulationTime), currentScale)

\* The label offset updatePositions gives a planet under a strategy.
LabelOffset(key, strategy) ==
    FAdd(FMul(size(strategy, allBodies[key].diameter), Dec(15, -1)), Int2Num(5))

\* Every scaled quantity of the scene is the one the strategy gives at the
\* instant time: sizes, orbit paths, positions and label offsets.
DerivedUnder(objects, strategy, time) ==
    /\ objects = updateScales(objects, strategy)
    /\ \A key \in DOMAIN allBodies :
          objects[key].position = BodyPosition(allBodies[key], daysSinceJ2000(time), strategy)
    /\ \A key \in PlanetKeys : objects[key].labelY = LabelOffset(key, strategy)

\* C11: after a click on a scale button, in any state, every scaled quantity
\* (the size of the Sun, of the planets and of the near-Earth objects, every
\* orbit path, every position and every label offset) is the one derived from
\* the stored values under the strategy now in use.
C11_SwitchRecomputes ==
    [][lastEvent'.name = "scale" =>
           DerivedUnder(celestialObjects', currentScale', simulationTime')]_vars

\* C12: what a frame shows is derived from one strategy: after every frame
\* there is a strategy under which the positions, the sizes and the orbit
\* paths are all the ones that strategy gives.
C12_FrameSingleStrategy ==
    lastEvent.name = "frame" =>
        \E strategy \in {"enhancedScale", "trueScale"} :
            /\ celestialObjects = updateScales(celestialObjects, strategy)
            /\ \A key \in DOMAIN allBodies :
                  celestialObjects[key].position
                      = BodyPosition(allBodies[key], daysSinceJ2000(simulationTime), strategy)

\* C13: a click on the button of the strategy in use leaves the strategy,
\* the scale mode and every object of the scene as they were, and after any
\* click on a scale button a second click on the same button would change
\* none of them.
C13_SwitchIdempotent ==
    [][lastEvent'.name = "scale" =>
           /\ (currentScale' = currentScale) =>
                  /\ scaleMode' = scaleMode
                  /\ celestialObjects' = celestialObjects
           /\ updateScales(celestialObjects', currentScale') = celestialObjects']_vars

\* The button of the strategy in use has been clicked, under the true scale.
C13_Witness ==
    /\ lastEvent.name = "scale"
    /\ lastEvent.from = "trueScale"
    /\ currentScale = "trueScale"

\* C14: the two selectors agree: scaleMode is 'enhanced' exactly when
\* currentScale is enhancedScale, and 'true' exactly when it is trueScale.
C14_SelectorsAgree ==
    /\ scaleMode \in {"enhanced", "true"}
    /\ currentScale \in {"enhancedScale", "trueScale"}
    /\ scaleMode = "enhanced" <=> currentScale = "enhancedScale"
    /\ scaleMode = "true" <=> currentScale = "trueScale"

\* The true scale has been selected from the enhanced one.
C14_Witness ==
    /\ lastEvent.name = "scale"
    /\ lastEvent.from = "enhancedScale"
    /\ scaleMode = "true"

\* C15: every size of the scene is the strategy's size of a stored physical
\* diameter: every body has one, and its size in the scene is derived from it.
C15_PhysicalInputs ==
    (lastEvent.name \in {"frame", "scale"}) =>
        \A key \in DOMAIN allBodies :
            /\ "diameter" \in DOMAIN allBodies[key]
            /\ celestialObjects[key].scale = size(currentScale, allBodies[key].diameter)

\* C16: the propagator turns the orbital-plane coordinates by the argument
\* of perihelion varpi - Omega, then by the inclination, then by the
\* longitude of the ascending node: the position updatePositions assigns
\* is the one that composition gives.
C16_PerihelionArgument ==
    (orbitCall.fn = "updatePositions" /\ orbitRet.done) =>
        orbitRet.position = PositionByPerihelionArgument(orbitCall.data, orbitCall.days,
                                                         orbitCall.strategy)

\* C17: the mean anomaly given to the Kepler solver is (M0 + n * days) mod
\* 360 degrees, with n = 360 / orbitalPeriod and M0 = L - varpi: for a
\* near-Earth object built from M0 it lies within a turn of 0 and differs
\* from M0 + n * days by whole turns, and at J2000 (days = 0) it is M0
\* modulo 360.
C17_MeanAnomaly ==
    (orbitCall.fn = "meanAnomaly" /\ orbitRet.done) =>
        /\ Abs(orbitRet.M) < 36000
        /\ Abs(orbitRet.L) < 36000
        /\ (orbitRet.M - (orbitRet.L - orbitCall.varpi
                            + (36000 * orbitCall.days) \div orbitCall.orbitalPeriod)) % 36000 = 0
        /\ (orbitRet.M - (orbitCall.M0
                            + (36000 * orbitCall.days) \div orbitCall.orbitalPeriod)) % 36000 = 0
        /\ orbitCall.days = 0 => (orbitRet.M - orbitCall.M0) % 36000 = 0

\* A near-Earth object whose M0 + varpi is more than a turn, so that L - varpi
\* is negative, has been propagated at J2000.
C17_Witness ==
    /\ orbitCall.fn = "meanAnomaly" /\ orbitRet.done
    /\ orbitCall.days = 0 /\ orbitCall.M0 = 35999 /\ orbitCall.varpi = 7560
    /\ orbitRet.M = -1

\* C18: for 0 <= e < 0.95 and any mean anomaly M, the E that solveKepler
\* returns after its seven Newton steps from E0 = M has
\* |E - e sin E - M| < 1e-6 radians.
C18_KeplerResidual ==
    (orbitCall.fn = "solveKepler" /\ orbitRet.done
       /\ 0 <= orbitCall.e /\ orbitCall.e < 95000000) =>
        Abs(orbitRet.E - FxMul(orbitCall.e, FxSin(orbitRet.E)) - orbitCall.M) < 100

\* solveKepler has returned for an eccentricity just below 0.95 and a mean
\* anomaly near perihelion, where E is more than half a radian from the seed
\* M.
C18_Witness ==
    /\ orbitCall.fn = "solveKepler" /\ orbitRet.done
    /\ orbitCall.e = 94999999 /\ orbitCall.M = 10000000
    /\ Abs(orbitRet.E - orbitCall.M) > 50000000

\* The ratio of aph to peri is (1 + e) / (1 - e) to one part in a hundred.
ShapeRatio(aph, peri, e) ==
    LET expected == FDiv(FAdd(Int2Num(1), e), FSub(Int2Num(1), e))
    IN  /\ FLe(FSub(FDiv(aph, peri), expected), FMul(expected, Dec(1, -2)))
        /\ FLe(FSub(expected, FDiv(aph, peri)), FMul(expected, Dec(1, -2)))

\* The distance of the point v from the Sun.
Radius(v) == FSqrt(FAdd(FAdd(FPowInt(v.x, 2), FPowInt(v.y, 2)), FPowInt(v.z, 2)))

\* C19: a scale changes size, never shape: under either strategy the
\* aphelion distance of every body is (1 + e) / (1 - e) times its perihelion
\* distance, in the positions the propagator computes (at E = pi and at
\* E = 0) and in the orbit path drawn.
C19_ShapeKept ==
    \A key \in DOMAIN allBodies :
        /\ ShapeRatio(FSub(celestialObjects[key].orbit.xRadius, celestialObjects[key].orbit.aX),
                      FAdd(celestialObjects[key].orbit.xRadius, celestialObjects[key].orbit.aX),
                      allBodies[key].e)
        /\ \A strategy \in {"enhancedScale", "trueScale"} :
              ShapeRatio(Radius(OrbitPlane(allBodies[key], PI,
                                           distance(strategy, allBodies[key].a))),
                         Radius(OrbitPlane(allBodies[key], Zero,
                                           distance(strategy, allBodies[key].a))),
                         allBodies[key].e)

\* The orbit paths have been redrawn true to scale after having been drawn
\* enhanced, and the path of Mars is the ellipse of its scaled semi-major
\* axis.
C19_Witness ==
    /\ lastEvent.name = "scale" /\ lastEvent.from = "enhancedScale"
    /\ currentScale = "trueScale"
    /\ celestialObjects["mars"].orbit.xRadius = distance("trueScale", allBodies["mars"].a)
    /\ celestialObjects["mars"].orbit.xRadius
          # distance("enhancedScale", allBodies["mars"].a)
    /\ celestialObjects["mars"].orbit.aX # Zero

\* C20: a body whose orbitalPeriod is 0 or unset is a configuration error
\* that is reported, and the propagator assigns it no position computed from
\* a mean motion that is not finite.
C20_PeriodReported ==
    (orbitCall.fn = "updatePositions" /\ orbitRet.done
       /\ (isNaN(orbitCall.data.orbitalPeriod) \/ orbitCall.data.orbitalPeriod = Zero)) =>
        /\ orbitRet.reported
        /\ ~orbitRet.assigned \/ \A c \in {"x", "y", "z"} : orbitRet.position[c].k = "fin"

\* C21: a body with ill-formed orbital elements is fatal to that body only:
\* in the same tick every other body is given the position its own elements
\* determine, in whatever order the loop visits the bodies.
C21_OthersPropagated ==
    (orbitCall.fn = "tick" /\ orbitRet.done) =>
        \A key \in DOMAIN allBodies \ {orbitCall.bad} :
            /\ orbitRet.positions[key]
                  = BodyPosition(allBodies[key], orbitCall.days, orbitCall.strategy)
            /\ \A c \in {"x", "y", "z"} : isFinite(orbitRet.positions[key][c])
            /\ orbitRet.positions[key] # [x |-> Zero, y |-> Zero, z |-> Zero]

\* The loop has met the body without a period first and Mars last; the first
\* has no position that is a number and Mars has left the origin.
C21_Witness ==
    /\ orbitCall.fn = "tick" /\ orbitRet.done
    /\ orbitCall.defect = "noPeriod"
    /\ orbitCall.order[1] = orbitCall.bad
    /\ orbitCall.order[Len(orbitCall.order)] = "mars"
    /\ isNaN(orbitRet.positions[orbitCall.bad].x)
    /\ isFinite(orbitRet.positions["mars"].x) /\ ~IsZero(orbitRet.positions["mars"].x)

\* C22: the kinetic energy and each of the three radii that
\* calculateImpactRadius returns are strictly increasing in each of density,
\* speed and diameter with the other two held fixed, over all the inputs it
\* accepts, and the energy is strictly positive.
C22_StrictlyIncreasing ==
    Returned("calculateImpactRadius") =>
        /\ FGt(engineRet.value.kinetic_energy_joules, Zero)
        /\ \A i \in 1..3, arg \in PhysicalArgs :
              LET other == calculateImpactRadius([engineCall.args EXCEPT ![i] = arg][1],
                                                 [engineCall.args EXCEPT ![i] = arg][2],
                                                 [engineCall.args EXCEPT ![i] = arg][3])
              IN  (~other.threw /\ FLt(Number(engineCall.args[i]), Number(arg))) =>
                      \A f \in {"kinetic_energy_joules", "severe_radius_km",
                                 "moderate_radius_km", "light_radius_km"} :
                          FLt(engineRet.value[f], other.value[f])

\* The numbers a and b agree to one part in a hundred.
Approx(a, b) ==
    /\ FLe(FSub(a, b), FMul(b, Dec(1, -2)))
    /\ FLe(FSub(b, a), FMul(b, Dec(1, -2)))

\* The result of the example: diameter 100 m, density 3000 kg/m^3, speed
\* 20000 m/s.
ExampleReturned ==
    /\ Returned("calculateImpactRadius")
    /\ engineCall.args = <<JSNumber(Int2Num(3000)), JSNumber(Int2Num(20000)),
                           JSNumber(Int2Num(100))>>

\* The formula of C23: the energy returned is (pi / 12) * density *
\* diameter^3 * speed^2 and its megaton value is that over 4.184e15.
EnergyFormula ==
    Returned("calculateImpactRadius") =>
        /\ engineRet.value.kinetic_energy_joules
              = FMul(FMul(FMul(FDiv(PI, Int2Num(12)), Number(engineCall.args[1])),
                          FPowInt(Number(engineCall.args[3]), 3)),
                     FPowInt(Number(engineCall.args[2]), 2))
        /\ engineRet.value.kinetic_energy_megatons
              = FDiv(engineRet.value.kinetic_energy_joules, Dec(4184, 12))

\* C23 as amended: the formula, and for the example E ~ 3.14e17 J ~ 75.1 Mt.
C23_EnergyOfExample ==
    /\ EnergyFormula
    /\ ExampleReturned =>
           /\ Approx(engineRet.value.kinetic_energy_joules, Dec(314, 15))
           /\ Approx(engineRet.value.kinetic_energy_megatons, Dec(751, -1))

\* C23: the formula, and for the example E ~ 6.28e14 J ~ 150 Mt.
C23_SpecExample ==
    /\ EnergyFormula
    /\ ExampleReturned =>
           /\ Approx(engineRet.value.kinetic_energy_joules, Dec(628, 12))
           /\ Approx(engineRet.value.kinetic_energy_megatons, Int2Num(150))

\* calculateImpactRadius has returned for the example.
C23_Witness ==
    ExampleReturned /\ engineRet.value.damage_classification = "Light"

\* The casualties of a zone of radius r: the disc pi * r * r times the
\* population density times the fatality fraction of the zone.
ZoneCasualties(r, density, fraction) ==
    FMul(FMul(FMul(FMul(PI, r), r), density), fraction)

\* The population density of a call: 100 when none is given.
DensityGiven(arg) == IF arg.t = "undefined" THEN Int2Num(100) ELSE Number(arg)

\* C24: estimateCasualties computes the casualties of each zone from the full
\* disc of the zone, the population density (100 when none is given) and
\* the fatality fraction 0.9, 0.3 or 0.05, and its total is the rounded sum of
\* the three values before rounding.
C24_ZoneCasualties ==
    Returned("estimateCasualties") =>
        LET density  == DensityGiven(engineCall.args[4])
            severe   == ZoneCasualties(Number(engineCall.args[1]), density, Dec(9, -1))
            moderate == ZoneCasualties(Number(engineCall.args[2]), density, Dec(3, -1))
            light    == ZoneCasualties(Number(engineCall.args[3]), density, Dec(5, -2))
        IN  /\ engineRet.value.severe_casualties = FRound(severe)
            /\ engineRet.value.moderate_casualties = FRound(moderate)
            /\ engineRet.value.light_casualties = FRound(light)
            /\ engineRet.value.total_casualties = FRound(FAdd(FAdd(severe, moderate), light))

\* A call without a population density has returned 4, 1 and 0 casualties
\* for its zones and 6 in total.
C24_Witness ==
    /\ Returned("estimateCasualties")
    /\ engineCall.args[4] = JSUndefined
    /\ engineRet.value.severe_casualties = Int2Num(4)
    /\ engineRet.value.moderate_casualties = Int2Num(1)
    /\ engineRet.value.light_casualties = Zero
    /\ engineRet.value.total_casualties = Int2Num(6)

Assessed == engineCall.fn = "comprehensiveImpactAssessment" /\ ~engineRet.threw

\* The Diameter or Velocity v of a NASA record is missing, or its text is no
\* number, or its number is zero.
Unusable(v) ==
    \/ v.t = "undefined"
    \/ v.t = "string" /\ (isNaN(parseFloat(v.s)) \/ IsZero(parseFloat(v.s)))

\* C26: comprehensiveImpactAssessment never throws, and what it returns has
\* one of two shapes: asteroid_info, impact_assessment (with one of the three
\* classifications), crater_analysis, casualty_estimation and nasa_data, each
\* with all its fields, or error and nasa_data alone; a NASA record whose
\* Diameter or Velocity is missing, is no number or is zero gets the error
\* record.
C26_TwoShapes ==
    engineCall.fn = "comprehensiveImpactAssessment" =>
        /\ ~engineRet.threw
        /\ \/ /\ DOMAIN engineRet.value = {"error", "nasa_data"}
              /\ engineRet.value.nasa_data = engineCall.args[1]
           \/ /\ DOMAIN engineRet.value =
                    {"asteroid_info", "impact_assessment", "crater_analysis",
                     "casualty_estimation", "nasa_data"}
              /\ DOMAIN engineRet.value.asteroid_info =
                    {"designation", "diameter_km", "velocity_km_s", "density_kg_m3"}
              /\ DOMAIN engineRet.value.impact_assessment =
                    {"kinetic_energy_joules", "kinetic_energy_megatons",
                     "severe_radius_km", "moderate_radius_km", "light_radius_km",
                     "damage_classification", "input_parameters"}
              /\ engineRet.value.impact_assessment.damage_classification
                    \in {"Severe", "Moderate", "Light"}
              /\ DOMAIN engineRet.value.crater_analysis =
                    {"crater_diameter_m", "crater_diameter_km", "crater_depth_m",
                     "crater_depth_km", "crater_volume_m3", "kinetic_energy_joules"}
              /\ DOMAIN engineRet.value.casualty_estimation =
                    {"severe_casualties", "moderate_casualties", "light_casualties",
                     "total_casualties", "affected_areas"}
              /\ engineRet.value.nasa_data = engineCall.args[1]
        /\ (/\ engineCall.args[1].t = "object"
            /\ Unusable(engineCall.args[1].Diameter) \/ Unusable(engineCall.args[1].Velocity))
              => DOMAIN engineRet.value = {"error", "nasa_data"}

\* C26 witness: a record with a Diameter of "0 km" and a Velocity of
\* "20 km/s" has been assessed and the error record of the validation of
\* calculateImpactRadius returned.
C26_Witness ==
    /\ Assessed
    /\ engineCall.args[1].t = "object"
    /\ engineCall.args[1].Diameter = JSString(<<"0", " ", "k", "m">>)
    /\ engineCall.args[1].Velocity = JSString(<<"2", "0", " ", "k", "m", "/", "s">>)
    /\ engineRet.value = [error |-> "Density, Speed, and Diameter must be positive values.",
                          nasa_data |-> engineCall.args[1]]

\* C27: in every successful result of comprehensiveImpactAssessment the
\* crater analysis and the impact assessment report the same kinetic energy,
\* a number: the energy of the density 3000, the speed and the diameter of
\* the record, each of which calculateImpactRadius received in its own
\* position.
C27_SameEnergy ==
    (Assessed /\ "impact_assessment" \in DOMAIN engineRet.value) =>
        LET r == engineRet.value
        IN  /\ ~isNaN(r.impact_assessment.kinetic_energy_joules)
            /\ r.crater_analysis.kinetic_energy_joules
                  = r.impact_assessment.kinetic_energy_joules
            /\ r.impact_assessment.input_parameters =
                  [density_kg_m3 |-> Int2Num(3000),
                   speed_m_s     |-> FMul(r.asteroid_info.velocity_km_s, Int2Num(1000)),
                   diameter_m    |-> FMul(r.asteroid_info.diameter_km, Int2Num(1000))]
            /\ r.impact_assessment.kinetic_energy_joules =
                  KineticEnergy(Int2Num(3000),
                                FMul(r.asteroid_info.velocity_km_s, Int2Num(1000)),
                                FMul(r.asteroid_info.diameter_km, Int2Num(1000)))

\* C27 witness: the assessment of a body of 0.1 km at 20 km/s succeeded with
\* the energy of 3.14e17 J in both analyses.
C27_Witness ==
    /\ Assessed
    /\ "impact_assessment" \in DOMAIN engineRet.value
    /\ engineRet.value.asteroid_info.diameter_km = Dec(1, -1)
    /\ engineRet.value.asteroid_info.velocity_km_s = Int2Num(20)
    /\ engineRet.value.crater_analysis.kinetic_energy_joules = Dec(314, 15)
    /\ engineRet.value.impact_assessment.kinetic_energy_joules = Dec(314, 15)

\* The estimate recalc asks for under the fields f: that of the active mode.
ActiveEstimate(f) ==
    IF f.modeEnergy THEN estimateFBfromEnergy(parseFloat(f.EmtEl))
    ELSE estimateFBfromDiameter(parseFloat(f.dEl))

\* C28: after every event of the calculator, with auto-estimate checked and
\* a value returned by the estimator of the active mode (energy in energy
\* mode, diameter in size mode), fB is that value, the manual field holds
\* its toExponential(2) text and the source names the estimator; when that
\* estimator returns null, and whenever auto-estimate is unchecked, fB is
\* the number read from the manual field and the source is manual.  With
\* auto-estimate unchecked the manual field keeps its text, unless the
\* event was the user typing into that very field.
C28_AutoEstimate ==
    [][ LET f == calc'.fields
            est == ActiveEstimate(f)
        IN  /\ (f.autoFb /\ est.t = "number") =>
                  /\ calc'.fbVal = est.n
                  /\ f.fbEl = toExponential2(est.n)
                  /\ calc'.fbNoteEl = (IF f.modeEnergy
                                       THEN <<"source: ", "auto (from energy)">>
                                       ELSE <<"source: ", "auto (from diameter)">>)
            /\ (~f.autoFb \/ est.t # "number") =>
                  /\ calc'.fbVal = parseFloat(f.fbEl)
                  /\ calc'.fbNoteEl = <<"source: ", "manual">>
            /\ ~f.autoFb =>
                  \/ f.fbEl = calc.fields.fbEl
                  \/ /\ f.fbEl \in FieldValues.fbEl
                     /\ f = [calc.fields EXCEPT !.fbEl = f.fbEl] ]_vars

\* C28 witness: size mode with auto-estimate checked, a diameter of 140 m
\* and an energy field of 50: the source is the diameter and the manual
\* field holds the estimate.
C28_Witness ==
    /\ calc.fields.autoFb /\ ~calc.fields.modeEnergy
    /\ calc.fields.dEl = <<"1", "4", "0">>
    /\ calc.fields.EmtEl = <<"5", "0">>
    /\ calc.fbNoteEl = <<"source: ", "auto (from diameter)">>
    /\ calc.fields.fbEl = toExponential2(calc.fbVal)

\* C29: in the scene that loads its near-Earth objects, whatever the order
\* of frames, scale clicks and resumptions of createNEOs, no handler reads a
\* property of celestialObjects.neos while it is undefined; it stays
\* unassigned until the load settles and has then been assigned exactly once,
\* on every outcome.
C29_NeosGuarded ==
    /\ ~neos.faulted
    /\ neos.stage = "settled" => neos.assigned /\ neos.assignments = 1
    /\ neos.stage \in {"fetchData", "jsonData", "fetchOrbits", "jsonOrbits"} =>
          ~neos.assigned /\ neos.assignments = 0 /\ neos.children = <<>>

\* C29 witness: the load is at its last await, celestialObjects.neos is
\* still unassigned, frames have run and the last event was a click on a
\* scale button.
C29_Witness ==
    /\ neos.stage = "jsonOrbits"
    /\ ~neos.assigned
    /\ frames > 0
    /\ lastEvent.name = "scale"
    /\ ~neos.faulted

\* C30: after an unpaused frame that found celestialObjects.neos assigned,
\* every child of the group of near-Earth objects has been given a position,
\* computed from its own record.
C30_EveryNeoPropagated ==
    (lastEvent.name = "frame" /\ ~isPaused /\ neos.assigned) =>
        \A i \in 1..Len(neos.children) : neos.children[i].placedBy = neos.children[i].name

====
